---- MODULE Spec2Model ----
(***************************************************************************)
(* A model of the deployment pipeline of aws-deploy-mcp:                   *)
(* LocalDeploymentService (src/src/local-deployment.js) and the parts of   *)
(* ConfigManager (src/src/config-manager.js) it writes to.                 *)
(*                                                                         *)
(* Strings the code inspects are sequences: a token is a sequence of       *)
(* characters (startsWith is a prefix test), an error message is the       *)
(* sequence of the phrases of its template (message.includes is a search   *)
(* for a phrase), interpolated values included.                            *)
(***************************************************************************)
EXTENDS Integers, Sequences, FiniteSets, TLC

\* Number of deploy invocations a behaviour makes.
MaxInvocations == 2

\* waitForDeployment: const maxAttempts = 120.
maxAttempts == 120

\* waitForDeployment: if (attempts >= 36).
partialSuccessThreshold == 36

\* addDeployment: config.deployments.slice(0, 10).
HistoryCap == 10

----------------------------------------------------------------------------
\* JavaScript values

\* undefined / null / "" : the falsy values a token, a branch or a header can be.
Undefined == "<undefined>"

\* `${v}` in a template string.
TemplateStr(v) == IF v = Undefined THEN "undefined" ELSE v

\* s.startsWith(p), s and p sequences of characters.
StartsWith(s, p) == Len(s) >= Len(p) /\ SubSeq(s, 1, Len(p)) = p

\* hay.includes(needle), needle one phrase.
Includes(msg, phrase) == \E i \in 1..Len(msg) : msg[i] = phrase

\* hay.includes(needle), needle a sequence of lexemes.
IncludesSeq(hay, needle) ==
    \E i \in 0..(Len(hay) - Len(needle)) :
        SubSeq(hay, i + 1, i + Len(needle)) = needle

\* String.prototype.toLowerCase, and the i flag of a regular expression.
UpperCase == <<"A", "B", "C", "D", "E", "F", "G", "H", "I", "J", "K", "L", "M", "N", "O", "P", "Q", "R", "S", "T", "U", "V", "W", "X", "Y", "Z">>
LowerCase == <<"a", "b", "c", "d", "e", "f", "g", "h", "i", "j", "k", "l", "m", "n", "o", "p", "q", "r", "s", "t", "u", "v", "w", "x", "y", "z">>
ToLowerChar(c) ==
    IF \E i \in 1..Len(UpperCase) : UpperCase[i] = c
        THEN LowerCase[CHOOSE i \in 1..Len(UpperCase) : UpperCase[i] = c]
        ELSE c
ToLower(s) == [i \in 1..Len(s) |-> ToLowerChar(s[i])]

----------------------------------------------------------------------------
\* Tokens

ClassicPrefix == <<"g", "h", "p", "_">>
FineGrainedPrefix == <<"g", "i", "t", "h", "u", "b", "_", "p", "a", "t", "_">>

\* No token: getGitHubToken returned null/undefined, GITHUB_TOKEN is unset or "".
NoToken == <<>>
ClassicToken == ClassicPrefix \o <<"A", "1">>
FineGrainedToken == FineGrainedPrefix \o <<"B", "2">>
OAuthToken == <<"g", "h", "o", "_", "C", "3">>
ShortToken == <<"g", "h">>

Tokens == {ClassicToken, FineGrainedToken, OAuthToken, ShortToken}

\* The values GITHUB_TOKEN takes.
EnvTokens == {NoToken, ClassicToken, FineGrainedToken}

----------------------------------------------------------------------------
\* Error messages, as the phrases the code's includes() tests can see.

MsgFineGrained ==
    <<"Fine-grained ", "GitHub token", " detected. AWS Amplify GitHub App requires CLASSIC tokens.">>
MsgUnknownFormat ==
    <<"Unknown ", "GitHub token", " format. AWS Amplify requires classic tokens.">>
MsgInvalidOrExpired(status) ==
    <<"GitHub token", " is invalid or expired (HTTP ", status, ")">>
MsgGitHubApiError(status) ==
    <<"GitHub API", " error: ", status>>
MsgInsufficientPermissions(status) ==
    <<"GitHub token", " validation failed for AWS Amplify GitHub App (HTTP ", status, ")">>
MsgMissingRequiredScope(scopes) ==
    <<"GitHub token", " missing required scope for AWS Amplify GitHub App.", "Current scopes: ">>
        \o scopes \o <<"Required scope: ", "admin:repo_hook">>
MsgNetwork == <<"request failed, reason: ", "ECONNREFUSED">>
MsgFailedToValidateToken(inner) ==
    <<"Failed to validate ", "GitHub token", ": ">> \o inner

MsgRepositoryNotAccessible(repository) ==
    <<"GitHub token", " cannot access ", "repository", " ", repository,
      ". This could mean: 1. ", "Repository", " doesn't exist">>
MsgCannotAccessRepository(repository, status) ==
    <<"Cannot access ", "repository", " ", repository, ": ", status>>
MsgWebhookPermissionDenied(repository) ==
    <<"GitHub token", " lacks ", "webhook", " permissions for ", repository>>
MsgReadOfUndefined == <<"Cannot read properties of undefined (reading 'owner')">>
MsgFailedToValidateRepository(inner) ==
    <<"Failed to validate ", "repository", " access: ">> \o inner

MsgSetupRequired == <<"AWS Amplify GitHub App Setup Required">>
MsgNoRemote == <<"No GitHub remote found. Please add your GitHub ", "repository", " as origin.">>

----------------------------------------------------------------------------
\* Results of a call: a value, or a thrown Error with its message; `calls` is
\* the sequence of network calls the call made.

Ok(value, calls) == [ok |-> TRUE, value |-> value, err |-> <<>>, calls |-> calls]
Throw(msg, calls) == [ok |-> FALSE, value |-> Undefined, err |-> msg, calls |-> calls]

----------------------------------------------------------------------------
\* HTTP responses of the source-control host

\* A fetch() either resolves with a status or rejects (network error).
NetErr == "neterr"
UserStatuses == {"200", "401", "403", "500", NetErr}
ReposStatuses == {"200", "401", "403", NetErr}
RepoStatuses == {"200", "401", "403", "404", "500", NetErr}
HooksStatuses == {"200", "401", "403", "404", "500", NetErr}

\* response.ok
HttpOk(status) == status \in {"200"}

\* Scope names, as lexemes; the X-OAuth-Scopes header lists them separated by ", ".
ScopeRepo == <<"repo">>
ScopeAdminRepoHook == <<"admin", ":", "repo_hook">>
ScopeWriteRepoHook == <<"write", ":", "repo_hook">>
ScopeAdminOrg == <<"admin", ":", "org">>

ScopeLists ==
    { <<>>,
      <<ScopeRepo>>,
      <<ScopeAdminRepoHook>>,
      <<ScopeRepo, ScopeAdminRepoHook>>,
      <<ScopeWriteRepoHook>>,
      <<ScopeAdminOrg, ScopeWriteRepoHook>> }

RECURSIVE JoinScopes(_)
JoinScopes(list) ==
    IF Len(list) = 0 THEN <<>>
    ELSE IF Len(list) = 1 THEN list[1]
    ELSE list[1] \o <<", ">> \o JoinScopes(Tail(list))

\* reposResponse.headers.get('X-OAuth-Scopes'): null when the header is absent.
AbsentHeader == [present |-> FALSE, value |-> <<>>]
HeaderOf(list) == [present |-> TRUE, value |-> JoinScopes(list)]
ScopeHeaders == {AbsentHeader} \cup {HeaderOf(l) : l \in ScopeLists}

\* if (scopes): null and "" are falsy.
Truthy(header) == header.present /\ Len(header.value) > 0

----------------------------------------------------------------------------
\* CredentialValidator

\* The last branch accepting the token instead of throwing.
checkGitHubTokenType_AcceptsUnknown(token) ==
    IF StartsWith(token, FineGrainedPrefix) THEN Throw(MsgFineGrained, <<>>)
    ELSE Ok(token, <<>>)

checkGitHubTokenType(token) ==
    IF StartsWith(token, FineGrainedPrefix) THEN Throw(MsgFineGrained, <<>>)
    ELSE IF StartsWith(token, ClassicPrefix) THEN Ok(token, <<>>)
    ELSE Throw(MsgUnknownFormat, <<>>)

\* The try block of validateGitHubToken.
validateGitHubTokenBody(token, userStatus, reposStatus, scopes) ==
    LET kind == checkGitHubTokenType(token)
        c1 == <<"GET /user">>
        c2 == <<"GET /user", "GET /user/repos">>
    IN  IF ~kind.ok THEN kind
        ELSE IF userStatus = NetErr THEN Throw(MsgNetwork, c1)
        ELSE IF ~HttpOk(userStatus) THEN
            IF userStatus = "401" THEN Throw(MsgInvalidOrExpired(userStatus), c1)
            ELSE Throw(MsgGitHubApiError(userStatus), c1)
        ELSE IF reposStatus = NetErr THEN Throw(MsgNetwork, c2)
        ELSE IF ~HttpOk(reposStatus) THEN Throw(MsgInsufficientPermissions(reposStatus), c2)
        ELSE IF Truthy(scopes) /\ ~IncludesSeq(scopes.value, ScopeAdminRepoHook)
            THEN Throw(MsgMissingRequiredScope(scopes.value), c2)
        ELSE Ok(token, c2)

\* The catch block of validateGitHubToken: which errors are rethrown as they are.
TokenErrorPassesThrough(msg) ==
    Includes(msg, "GitHub token") \/ Includes(msg, "GitHub API")

validateGitHubToken(token, userStatus, reposStatus, scopes) ==
    LET r == validateGitHubTokenBody(token, userStatus, reposStatus, scopes)
    IN  IF r.ok \/ TokenErrorPassesThrough(r.err) THEN r
        ELSE Throw(MsgFailedToValidateToken(r.err), r.calls)

\* ensureGitHubRepo returns undefined when the remote URL is not a GitHub URL.
NoRepoInfo == [repository |-> Undefined, owner |-> Undefined, repo |-> Undefined]

\* The try block of validateGitHubTokenForRepository.
validateGitHubTokenForRepositoryBody(token, repoInfo, repoStatus, hooksStatus) ==
    LET c1 == <<"GET /repos/:owner/:repo">>
        c2 == <<"GET /repos/:owner/:repo", "GET /repos/:owner/:repo/hooks">>
    IN  IF repoInfo = NoRepoInfo THEN Throw(MsgReadOfUndefined, <<>>)
        ELSE IF repoStatus = NetErr THEN Throw(MsgNetwork, c1)
        ELSE IF ~HttpOk(repoStatus) THEN
            IF repoStatus = "404"
                THEN Throw(MsgRepositoryNotAccessible(repoInfo.repository), c1)
                ELSE Throw(MsgCannotAccessRepository(repoInfo.repository, repoStatus), c1)
        ELSE IF hooksStatus = NetErr THEN Throw(MsgNetwork, c2)
        ELSE IF ~HttpOk(hooksStatus) /\ hooksStatus # "403" THEN Ok(token, c2)
        ELSE IF hooksStatus = "403"
            THEN Throw(MsgWebhookPermissionDenied(repoInfo.repository), c2)
        ELSE Ok(token, c2)

\* The catch block letting through only the messages that say 'Repository'.
RepositoryErrorPassesThrough_OnlyRepository(msg) == Includes(msg, "Repository")

\* The catch block of validateGitHubTokenForRepository.
RepositoryErrorPassesThrough(msg) ==
    Includes(msg, "GitHub token") \/ Includes(msg, "Repository") \/ Includes(msg, "webhook")

validateGitHubTokenForRepository(token, repoInfo, repoStatus, hooksStatus) ==
    LET r == validateGitHubTokenForRepositoryBody(token, repoInfo, repoStatus, hooksStatus)
    IN  IF r.ok \/ RepositoryErrorPassesThrough(r.err) THEN r
        ELSE Throw(MsgFailedToValidateRepository(r.err), r.calls)

\* ensureGitHubAuth: the token it resolves, the secret store it leaves, its outcome.
ensureGitHubAuth(stored, env, userStatus, reposStatus, scopes) ==
    LET useEnv == stored = NoToken /\ env # NoToken
        token == IF useEnv THEN env ELSE stored
        store == IF useEnv THEN env ELSE stored
    IN  IF token = NoToken
            THEN [store |-> store, token |-> token, result |-> Throw(MsgSetupRequired, <<>>)]
            ELSE [store |-> store, token |-> token,
                  result |-> validateGitHubToken(token, userStatus, reposStatus, scopes)]

\* git config --get remote.origin.url, and the match against the GitHub URL pattern.
NoRemote == [kind |-> "none", owner |-> Undefined, repo |-> Undefined]
GitHubRemote == [kind |-> "github", owner |-> "acme", repo |-> "site"]
OtherRemote == [kind |-> "other", owner |-> "acme", repo |-> "site"]
Remotes == {NoRemote, GitHubRemote, OtherRemote}

ensureGitHubRepo(remote) ==
    IF remote.kind = "none" THEN Throw(MsgNoRemote, <<>>)
    ELSE IF remote.kind = "github"
        THEN Ok([repository |-> "https://github.com/" \o remote.owner \o "/" \o remote.repo,
                 owner |-> remote.owner, repo |-> remote.repo], <<>>)
    ELSE Ok(NoRepoInfo, <<>>)

----------------------------------------------------------------------------
\* ProjectValidator

Dependencies == {"next", "react", "commander", "express"}

\* The dependencies detectFramework looks for: the web frameworks, the marks
\* of a command-line tool, the marks of a server.
FrameworkDependencies == {"next", "react", "vue", "@angular/core"}
CliDependencies == {"commander", "inquirer", "@modelcontextprotocol/sdk"}
ServerDependencies == {"express", "fastify", "koa", "hapi"}

\* packageJson.name and packageJson.description: absent, or a string.
NoText == [present |-> FALSE, value |-> <<>>]
Text(s) == [present |-> TRUE, value |-> s]
SiteName == Text(<<"s", "i", "t", "e">>)
NoDescription == NoText

\* A project directory: its package.json (absent, unparsable or parsed), the
\* dependencies, bin entry, name and description of a parsed one, where its
\* HTML files are, and whether the directory can be read and is a git work
\* tree.
Projects ==
    [manifest : {"none", "invalid", "ok"},
     deps : SUBSET Dependencies,
     bin : BOOLEAN,
     name : {SiteName},
     description : {NoDescription},
     html : {"root", "subdir", "none"},
     readable : BOOLEAN,
     git : BOOLEAN]

MsgCliTool == <<"This appears to be a ", "CLI tool", " project, not a web application.">>
MsgServer == <<"This appears to be a ", "server project", ", not a web application.">>
MsgNoPackageJson == <<"No package.json found. Please run this command from your project root.">>
MsgNoHtml == <<"No HTML files found", " in the project directory">>
MsgCannotReadDirectory(inner) == <<"Cannot read project directory. Error: ">> \o inner
MsgNoGit == <<"Git is not initialized. Run \"git init\" first.">>
MsgFsError == <<"ENOENT: no such file or directory">>

\* packageJson.name?.includes('cli'), and the same on the description in
\* lower case: undefined when the field is absent.
MentionsCli(field) == field.present /\ IncludesSeq(field.value, <<"c", "l", "i">>)

isCliTool(project) ==
    \/ project.bin
    \/ project.deps \cap CliDependencies # {}
    \/ MentionsCli(project.name)
    \/ MentionsCli([project.description EXCEPT !.value = ToLower(@)])

isServerProject(project) == project.deps \cap ServerDependencies # {}

\* The try block of detectFramework.
detectFrameworkBody(project) ==
    IF project.manifest # "ok" THEN Throw(MsgFsError, <<>>)
    ELSE IF "next" \in project.deps THEN Ok("nextjs", <<>>)
    ELSE IF "react" \in project.deps THEN Ok("react", <<>>)
    ELSE IF "vue" \in project.deps THEN Ok("vue", <<>>)
    ELSE IF "@angular/core" \in project.deps THEN Ok("angular", <<>>)
    ELSE IF isCliTool(project) THEN Throw(MsgCliTool, <<>>)
    ELSE IF isServerProject(project) THEN Throw(MsgServer, <<>>)
    ELSE Ok("static", <<>>)

\* The catch block returning 'static' for every error.
detectFramework_AssumesStatic(project) ==
    LET r == detectFrameworkBody(project)
    IN  IF r.ok THEN r ELSE Ok("static", <<>>)

detectFramework(project) ==
    LET r == detectFrameworkBody(project)
    IN  IF r.ok THEN r
        ELSE IF Includes(r.err, "CLI tool") \/ Includes(r.err, "server project") THEN r
        ELSE Ok("static", <<>>)

validateProject(project) ==
    LET framework == detectFramework(project)
    IN  IF ~framework.ok THEN framework
        ELSE IF framework.value # "static" /\ project.manifest # "ok"
            THEN Throw(MsgNoPackageJson, <<>>)
        ELSE IF framework.value = "static" /\ ~project.readable
            THEN Throw(MsgCannotReadDirectory(MsgFsError), <<>>)
        ELSE IF framework.value = "static" /\ project.html = "none"
            THEN Throw(MsgNoHtml, <<>>)
        ELSE IF ~project.git THEN Throw(MsgNoGit, <<>>)
        ELSE Ok(framework.value, <<>>)

\* ensureAmplifyConfig: nothing to do when amplify.yml exists; otherwise the
\* default configuration is generated and written, and the write can fail.
MsgWriteFailed == <<"EACCES: permission denied, open amplify.yml">>

ensureAmplifyConfig(hasConfig, writeOk) ==
    IF hasConfig THEN Ok("exists", <<>>)
    ELSE IF writeOk THEN Ok("written", <<"write amplify.yml">>)
    ELSE Throw(MsgWriteFailed, <<>>)

----------------------------------------------------------------------------
\* AppProvisioner

\* Errors the hosting provider's client raises: a name and a message.
NoError == [name |-> "none", message |-> <<>>]
ProviderErrors ==
    { [name |-> "LimitExceededException", message |-> <<"Maximum number of apps reached">>],
      [name |-> "LimitExceededException", message |-> <<"Limit reached for ", "repository", " apps">>],
      [name |-> "BadRequestException", message |-> <<"There was an issue setting up your ", "repository", ": ", "Bad credentials">>],
      [name |-> "UnauthorizedException", message |-> <<"GitHub ", "authentication", " failed">>],
      [name |-> "BadRequestException", message |-> <<"Invalid ", "repository", " URL">>],
      [name |-> "InternalFailureException", message |-> <<"Internal error">>] }
CallOutcomes == {NoError} \cup ProviderErrors

MsgNullClient == <<"Cannot read properties of null (reading 'send')">>
NullClientError == [name |-> "TypeError", message |-> MsgNullClient]

MsgAppQuotaExceeded == <<"AWS Amplify app limit reached. Please delete unused apps.">>
MsgAuthRejectedByProvider(inner) ==
    <<"GitHub ", "authentication", " failed during AWS Amplify setup.",
      "Your ", "GitHub token", " passed validation but AWS Amplify rejected it.", "AWS Error: ">> \o inner
MsgRepositoryRejected(repository, inner) ==
    <<"Repository", " setup failed during AWS Amplify setup:", repository, "AWS Error: ">> \o inner
\* error.code, error.$metadata?.httpStatusCode, error.$metadata?.requestId:
\* undefined when the error has no such property; `${v || 'N/A'}`.
Property(error, field) == IF field \in DOMAIN error THEN error[field] ELSE Undefined
OrNA(v) == IF v = Undefined THEN "N/A" ELSE v

MsgProviderError(error) ==
    <<"AWS Amplify deployment failed: ">> \o error.message
        \o <<"Error Type: ", error.name,
             "Error Code: ", OrNA(Property(error, "code")),
             "HTTP Status: ", OrNA(Property(error, "httpStatusCode")),
             "Request ID: ", OrNA(Property(error, "requestId"))>>

\* The repository test made before the authentication test.
ProvisioningFailure_RepositoryFirst(error, repository) ==
    IF error.name = "LimitExceededException" THEN MsgAppQuotaExceeded
    ELSE IF Includes(error.message, "repository")
        THEN MsgRepositoryRejected(repository, error.message)
    ELSE IF Includes(error.message, "Bad credentials") \/ Includes(error.message, "authentication")
        THEN MsgAuthRejectedByProvider(error.message)
    ELSE MsgProviderError(error)

\* The catch block of createAmplifyApp.
ProvisioningFailure(error, repository) ==
    IF error.name = "LimitExceededException" THEN MsgAppQuotaExceeded
    ELSE IF Includes(error.message, "Bad credentials") \/ Includes(error.message, "authentication")
        THEN MsgAuthRejectedByProvider(error.message)
    ELSE IF Includes(error.message, "repository")
        THEN MsgRepositoryRejected(repository, error.message)
    ELSE MsgProviderError(error)

\* The id the provider gives the n-th app, and the app's default domain.
AppId(n) == "app" \o ToString(n)
DefaultDomain(appId) == <<appId, ".amplifyapp.com">>

\* A failure after createApp compensated by deleting the app.
createAmplifyApp_RollsBack(client, appId, repository, app, branch, job) ==
    LET c1 == <<"createApp">>
        c2 == <<"createApp", "createBranch">>
        c3 == <<"createApp", "createBranch", "startJob">>
        fail(error, calls, created) ==
            [result |-> Throw(ProvisioningFailure(error, repository), calls),
             created |-> created]
    IN  IF ~client THEN fail(NullClientError, <<>>, FALSE)
        ELSE IF app # NoError THEN fail(app, c1, FALSE)
        ELSE IF branch # NoError THEN fail(branch, c2 \o <<"deleteApp">>, FALSE)
        ELSE IF job # NoError THEN fail(job, c3 \o <<"deleteApp">>, FALSE)
        ELSE [result |-> Ok(appId, c3), created |-> TRUE]

\* createAmplifyApp: the three calls in order, each outcome an input; `created`
\* says whether the app exists remotely afterwards.
createAmplifyApp(client, appId, repository, app, branch, job) ==
    LET c1 == <<"createApp">>
        c2 == <<"createApp", "createBranch">>
        c3 == <<"createApp", "createBranch", "startJob">>
        fail(error, calls, created) ==
            [result |-> Throw(ProvisioningFailure(error, repository), calls),
             created |-> created]
    IN  IF ~client THEN fail(NullClientError, <<>>, FALSE)
        ELSE IF app # NoError THEN fail(app, c1, FALSE)
        ELSE IF branch # NoError THEN fail(branch, c2, TRUE)
        ELSE IF job # NoError THEN fail(job, c3, TRUE)
        ELSE [result |-> Ok(appId, c3), created |-> TRUE]

----------------------------------------------------------------------------
\* DeploymentStatusPoller

\* branchResponse.branch.stage: the provider's values, and one it does not document.
Stages == {"PENDING", "PROVISIONING", "RUNNING", "SUCCEED", "CANCELLING",
           "PRODUCTION", "FAILED", "PULL_REQUEST"}

\* Errors the provider's client raises on a read.
ReadErrors == {[name |-> "ThrottlingException", message |-> <<"Rate exceeded">>]}
ReadOutcomes == {NoError} \cup ReadErrors

\* `https://${branchName}.${defaultDomain}`
Url(branchName, domain) == <<"https://", TemplateStr(branchName), ".">> \o domain

NoUrl == <<>>

MsgBuildFailed == <<"Deployment failed", ". Check AWS Amplify console for details.">>
MsgPartialSuccess(appId, url, currentStage) ==
    <<"PARTIAL_SUCCESS:", " App created successfully but deployment is still in progress.",
      "App ID: ", appId, "Expected URL: ">> \o url \o <<"Current Status: ", currentStage>>
MsgTimeout(appId, url) ==
    <<"TIMEOUT:", " Deployment is taking longer than expected but may still succeed.",
      "App ID: ", appId, "Expected URL: ">> \o url

\* A read that throws taken for a stage not yet terminal: the poll sleeps
\* and reads again.
waitIteration_RetriesRead(n, appId, branchName, branchRead, stageRead, appRead) ==
    LET c1 == <<"getBranch">>
        c2 == <<"getBranch", "getApp">>
        url == Url(branchName, DefaultDomain(appId))
        settle(r) == [settled |-> TRUE, result |-> r, attempts |-> n]
    IN  IF branchRead = NoError /\ stageRead = "PRODUCTION" THEN
            IF appRead # NoError THEN settle(Throw(appRead.message, c2))
            ELSE settle(Ok(url, c2))
        ELSE IF branchRead = NoError /\ stageRead = "FAILED" THEN settle(Throw(MsgBuildFailed, c1))
        ELSE IF n >= partialSuccessThreshold THEN
            IF appRead # NoError THEN settle(Throw(appRead.message, c2))
            ELSE settle(Throw(MsgPartialSuccess(appId, url, stageRead), c2))
        ELSE [settled |-> FALSE, result |-> Ok(NoUrl, c1), attempts |-> n + 1]

\* SUCCEED taken for a terminal success, like PRODUCTION.
waitIteration_SucceedSettles(n, appId, branchName, branchRead, stageRead, appRead) ==
    LET c1 == <<"getBranch">>
        c2 == <<"getBranch", "getApp">>
        url == Url(branchName, DefaultDomain(appId))
        settle(r) == [settled |-> TRUE, result |-> r, attempts |-> n]
    IN  IF branchRead # NoError THEN settle(Throw(branchRead.message, c1))
        ELSE IF stageRead \in {"PRODUCTION", "SUCCEED"} THEN
            IF appRead # NoError THEN settle(Throw(appRead.message, c2))
            ELSE settle(Ok(url, c2))
        ELSE IF stageRead = "FAILED" THEN settle(Throw(MsgBuildFailed, c1))
        ELSE IF n >= partialSuccessThreshold THEN
            IF appRead # NoError THEN settle(Throw(appRead.message, c2))
            ELSE settle(Throw(MsgPartialSuccess(appId, url, stageRead), c2))
        ELSE [settled |-> FALSE, result |-> Ok(NoUrl, c1), attempts |-> n + 1]

\* The threshold compared with > instead of >=.
waitIteration_LatePartial(n, appId, branchName, branchRead, stageRead, appRead) ==
    LET c1 == <<"getBranch">>
        c2 == <<"getBranch", "getApp">>
        url == Url(branchName, DefaultDomain(appId))
        settle(r) == [settled |-> TRUE, result |-> r, attempts |-> n]
    IN  IF branchRead # NoError THEN settle(Throw(branchRead.message, c1))
        ELSE IF stageRead = "PRODUCTION" THEN
            IF appRead # NoError THEN settle(Throw(appRead.message, c2))
            ELSE settle(Ok(url, c2))
        ELSE IF stageRead = "FAILED" THEN settle(Throw(MsgBuildFailed, c1))
        ELSE IF n > partialSuccessThreshold THEN
            IF appRead # NoError THEN settle(Throw(appRead.message, c2))
            ELSE settle(Throw(MsgPartialSuccess(appId, url, stageRead), c2))
        ELSE [settled |-> FALSE, result |-> Ok(NoUrl, c1), attempts |-> n + 1]

\* The threshold tested before the stage.
waitIteration_ThresholdFirst(n, appId, branchName, branchRead, stageRead, appRead) ==
    LET c1 == <<"getBranch">>
        c2 == <<"getBranch", "getApp">>
        url == Url(branchName, DefaultDomain(appId))
        settle(r) == [settled |-> TRUE, result |-> r, attempts |-> n]
    IN  IF branchRead # NoError THEN settle(Throw(branchRead.message, c1))
        ELSE IF n >= partialSuccessThreshold THEN
            IF appRead # NoError THEN settle(Throw(appRead.message, c2))
            ELSE settle(Throw(MsgPartialSuccess(appId, url, stageRead), c2))
        ELSE IF stageRead = "PRODUCTION" THEN
            IF appRead # NoError THEN settle(Throw(appRead.message, c2))
            ELSE settle(Ok(url, c2))
        ELSE IF stageRead = "FAILED" THEN settle(Throw(MsgBuildFailed, c1))
        ELSE [settled |-> FALSE, result |-> Ok(NoUrl, c1), attempts |-> n + 1]

\* One pass through the body of the while loop of waitForDeployment, with the
\* outcomes of its reads as inputs: the poll settles (returns or throws) or
\* sleeps and counts the attempt.
waitIteration(n, appId, branchName, branchRead, stageRead, appRead) ==
    LET c1 == <<"getBranch">>
        c2 == <<"getBranch", "getApp">>
        url == Url(branchName, DefaultDomain(appId))
        settle(r) == [settled |-> TRUE, result |-> r, attempts |-> n]
    IN  IF branchRead # NoError THEN settle(Throw(branchRead.message, c1))
        ELSE IF stageRead = "PRODUCTION" THEN
            IF appRead # NoError THEN settle(Throw(appRead.message, c2))
            ELSE settle(Ok(url, c2))
        ELSE IF stageRead = "FAILED" THEN settle(Throw(MsgBuildFailed, c1))
        ELSE IF n >= partialSuccessThreshold THEN
            IF appRead # NoError THEN settle(Throw(appRead.message, c2))
            ELSE settle(Throw(MsgPartialSuccess(appId, url, stageRead), c2))
        ELSE [settled |-> FALSE, result |-> Ok(NoUrl, c1), attempts |-> n + 1]

\* The code after the while loop.
waitTimeout(n, appId, branchName, appRead) ==
    LET c == <<"getApp">>
    IN  IF appRead # NoError
            THEN [settled |-> TRUE, result |-> Throw(appRead.message, c), attempts |-> n]
            ELSE [settled |-> TRUE, attempts |-> n,
                  result |-> Throw(MsgTimeout(appId, Url(branchName, DefaultDomain(appId))), c)]

\* while (attempts < maxAttempts) { ... } ...
waitForDeploymentStep(n, appId, branchName, branchRead, stageRead, appRead) ==
    IF n < maxAttempts
        THEN waitIteration(n, appId, branchName, branchRead, stageRead, appRead)
        ELSE waitTimeout(n, appId, branchName, appRead)

----------------------------------------------------------------------------
\* ConfigManager: the deployment history

Min(a, b) == IF a < b THEN a ELSE b

Deployment(appId, status, url) == [appId |-> appId, status |-> status, url |-> url]

\* The record pushed at the end, the first 10 kept.
addDeployment_Pushes(deployments, deployment) ==
    LET all == deployments \o <<deployment>>
    IN  SubSeq(all, 1, Min(Len(all), HistoryCap))

\* unshift the record, keep the first 10.
addDeployment(deployments, deployment) ==
    LET all == <<deployment>> \o deployments
    IN  SubSeq(all, 1, Min(Len(all), HistoryCap))

----------------------------------------------------------------------------
\* AmplifyEnvManager: strings are sequences of characters

Digits == <<"0", "1", "2", "3", "4", "5", "6", "7", "8", "9">>
WhiteSpace == {" ", "\t", "\r", "\n"}
LineTerminators == {"\n", "\r"}

\* String.prototype.trim
Trim(s) ==
    LET kept == {i \in 1..Len(s) : s[i] \notin WhiteSpace}
    IN  IF kept = {} THEN <<>>
        ELSE SubSeq(s, CHOOSE i \in kept : \A j \in kept : i <= j,
                       CHOOSE i \in kept : \A j \in kept : i >= j)

\* A regular expression of the exclusion list: ^ or not, literal parts
\* separated by .*, $ or not, the i flag or not.
Regex(start, parts, end, icase) ==
    [start |-> start, parts |-> parts, end |-> end, icase |-> icase]

MatchesAt(t, p, i) == i + Len(p) - 1 <= Len(t) /\ SubSeq(t, i, i + Len(p) - 1) = p

\* RegExp.prototype.test for such an expression (no g flag: no state).
RegexTest(re, s) ==
    LET fold(x) == IF re.icase THEN ToLower(x) ELSE x
        t == fold(s)
        first == fold(re.parts[1])
        starts == IF re.start THEN {1} ELSE 1..(Len(t) + 1)
        endOk(j) == ~re.end \/ j = Len(t) + 1
        restOk(j) ==
            IF Len(re.parts) = 1 THEN endOk(j)
            ELSE LET second == fold(re.parts[2])
                 IN  \E k \in j..(Len(t) + 1) :
                        /\ MatchesAt(t, second, k)
                        /\ \A m \in j..(k - 1) : t[m] \notin LineTerminators
                        /\ endOk(k + Len(second))
    IN  \E i \in starts : MatchesAt(t, first, i) /\ restOk(i + Len(first))

excludePatterns ==
    << Regex(TRUE, <<<<"N", "O", "D", "E", "_", "E", "N", "V">>>>, TRUE, TRUE),
       Regex(TRUE, <<<<"P", "O", "R", "T">>>>, TRUE, TRUE),
       Regex(TRUE, <<<<"H", "O", "S", "T">>>>, TRUE, TRUE),
       Regex(TRUE, <<<<"L", "O", "C", "A", "L">>>>, FALSE, TRUE),
       Regex(TRUE, <<<<"D", "E", "V">>>>, FALSE, TRUE),
       Regex(TRUE, <<<<"D", "E", "B", "U", "G">>>>, FALSE, TRUE),
       Regex(FALSE, <<<<"l", "o", "c", "a", "l", "h", "o", "s", "t">>>>, FALSE, TRUE),
       Regex(FALSE, <<<<"1", "2", "7", ".", "0", ".", "0", ".", "1">>>>, FALSE, FALSE),
       Regex(TRUE, <<<<"R", "E", "A", "C", "T", "_", "A", "P", "P", "_", "A", "P", "I", "_", "U", "R", "L">>, <<"l", "o", "c", "a", "l", "h", "o", "s", "t">>>>, FALSE, TRUE) >>

\* An object with string keys is the sequence of its entries in the order
\* Object.entries gives them: array-index keys ascending, then the other keys
\* in insertion order.
EmptyObject == <<>>
Entry(key, value) == [key |-> key, value |-> value]
HasKey(obj, key) == \E i \in 1..Len(obj) : obj[i].key = key

RECURSIVE ToNat(_)
ToNat(k) ==
    IF k = <<>> THEN 0
    ELSE 10 * ToNat(SubSeq(k, 1, Len(k) - 1))
         + (CHOOSE d \in 0..9 : Digits[d + 1] = k[Len(k)])

IsArrayIndex(k) ==
    /\ Len(k) >= 1
    /\ Len(k) <= 9
    /\ \A i \in 1..Len(k) : \E d \in 1..Len(Digits) : Digits[d] = k[i]
    /\ (Len(k) = 1 \/ k[1] # "0")

\* A new key added at the front instead of in its place.
ObjectSet_Prepends(obj, key, value) ==
    IF HasKey(obj, key)
        THEN [i \in 1..Len(obj) |-> IF obj[i].key = key THEN Entry(key, value) ELSE obj[i]]
        ELSE <<Entry(key, value)>> \o obj

\* obj[key] = value
ObjectSet(obj, key, value) ==
    IF HasKey(obj, key)
        THEN [i \in 1..Len(obj) |-> IF obj[i].key = key THEN Entry(key, value) ELSE obj[i]]
    ELSE IF IsArrayIndex(key)
        THEN LET before == {i \in 1..Len(obj) :
                              IsArrayIndex(obj[i].key) /\ ToNat(obj[i].key) < ToNat(key)}
                 n == Cardinality(before)
             IN  SubSeq(obj, 1, n) \o <<Entry(key, value)>> \o SubSeq(obj, n + 1, Len(obj))
    ELSE Append(obj, Entry(key, value))

\* { ...a, ...b }
RECURSIVE Spread(_, _)
Spread(a, b) ==
    IF b = <<>> THEN a
    ELSE Spread(ObjectSet(a, b[1].key, b[1].value), Tail(b))

\* excludePatterns.some(pattern => pattern.test(key) || pattern.test(value))
shouldExclude(key, value) ==
    \E i \in 1..Len(excludePatterns) :
        RegexTest(excludePatterns[i], key) \/ RegexTest(excludePatterns[i], value)

\* The exclusion rules applied to the key only.
filterProductionVars_KeyRulesOnly(envVars) ==
    LET RECURSIVE loop(_, _)
        loop(entries, filtered) ==
            IF entries = <<>> THEN filtered
            ELSE LET key == entries[1].key
                     value == entries[1].value
                     excluded == \E i \in 1..Len(excludePatterns) :
                                    RegexTest(excludePatterns[i], key)
                 IN  loop(Tail(entries),
                          IF ~excluded /\ Trim(value) # <<>>
                              THEN ObjectSet(filtered, key, value)
                              ELSE filtered)
    IN  loop(envVars, EmptyObject)

\* filterProductionVars: the loop over Object.entries(envVars).
filterProductionVars(envVars) ==
    LET RECURSIVE loop(_, _)
        loop(entries, filtered) ==
            IF entries = <<>> THEN filtered
            ELSE LET key == entries[1].key
                     value == entries[1].value
                 IN  loop(Tail(entries),
                          IF ~shouldExclude(key, value) /\ Trim(value) # <<>>
                              THEN ObjectSet(filtered, key, value)
                              ELSE filtered)
    IN  loop(envVars, EmptyObject)

\* The conventional env files, in the order they are read.
envFiles == <<".env", ".env.local", ".env.production">>

\* A file is absent, cannot be read, or is its lines (content.split('\n')).
Absent == [exists |-> FALSE, readable |-> FALSE, lines |-> <<>>]
Unreadable == [exists |-> TRUE, readable |-> FALSE, lines |-> <<>>]
File(lines) == [exists |-> TRUE, readable |-> TRUE, lines |-> lines]

MsgFileNotFound == <<"Environment file not found: ">>
MsgReadFailed == <<"EACCES: permission denied">>

\* One line of parseEnvFile: a comment, a blank line, a line without = or
\* with nothing before it is skipped; the key is what precedes the first =,
\* trimmed; the value is what follows it, one pair of enclosing quotes removed.
parseLine(envVars, line) ==
    LET trimmed == Trim(line)
        eqs == {i \in 1..Len(trimmed) : trimmed[i] = "="}
    IN  IF trimmed = <<>> \/ trimmed[1] = "#" \/ eqs = {} THEN envVars
        ELSE LET eq == CHOOSE i \in eqs : \A j \in eqs : i <= j
                 key == SubSeq(trimmed, 1, eq - 1)
                 raw == SubSeq(trimmed, eq + 1, Len(trimmed))
                 quoted == /\ raw # <<>>
                           /\ \/ raw[1] = "\"" /\ raw[Len(raw)] = "\""
                              \/ raw[1] = "'" /\ raw[Len(raw)] = "'"
                 value == IF quoted THEN SubSeq(raw, 2, Len(raw) - 1) ELSE raw
             IN  IF key = <<>> THEN envVars ELSE ObjectSet(envVars, Trim(key), value)

RECURSIVE parseLines(_, _)
parseLines(envVars, lines) ==
    IF lines = <<>> THEN envVars
    ELSE parseLines(parseLine(envVars, lines[1]), Tail(lines))

parseEnvFile(file) ==
    IF ~file.exists THEN Throw(MsgFileNotFound, <<>>)
    ELSE IF ~file.readable THEN Throw(MsgReadFailed, <<>>)
    ELSE Ok(parseLines(EmptyObject, file.lines), <<>>)

\* What the provider's client does with an UpdateAppCommand.
UpdateApp(appId, envVars) == [op |-> "updateApp", appId |-> appId, environmentVariables |-> envVars]
UpdateOutcomes == {NoError} \cup ReadErrors

\* syncToAmplify: one UpdateAppCommand carrying the mapping given.
syncToAmplify(appId, envVars, update) ==
    [success |-> update = NoError,
     count |-> IF update = NoError THEN Len(envVars) ELSE 0,
     error |-> update.message,
     sent |-> <<UpdateApp(appId, envVars)>>]

MsgNoEnvFiles == <<"No .env files found in project directory">>
MsgNoProductionVars == <<"No production-suitable environment variables found">>
MsgErrorReading(envFile, inner) == <<"Error reading ", envFile, ": ">> \o inner
MsgAmplifySyncFailed(inner) == <<"Amplify sync failed: ">> \o inner

\* The loop of autoSyncFromEnvFile over the env files of the directory.
RECURSIVE readEnvFiles(_, _, _)
readEnvFiles(files, i, acc) ==
    IF i > Len(envFiles) THEN acc
    ELSE IF ~files[i].exists THEN readEnvFiles(files, i + 1, acc)
    ELSE LET parsed == parseEnvFile(files[i])
         IN  readEnvFiles(files, i + 1,
                IF parsed.ok
                    THEN [acc EXCEPT !.envVars = Spread(acc.envVars, parsed.value),
                                     !.foundEnvFile = TRUE]
                    ELSE [acc EXCEPT !.errors = Append(acc.errors,
                                                       MsgErrorReading(envFiles[i], parsed.err))])

Results(envFileRead, envVarsFound, synced, errors, sent) ==
    [envFileRead |-> envFileRead, envVarsFound |-> envVarsFound, synced |-> synced,
     errors |-> errors, sent |-> sent]

\* The results autoSyncFromEnvFile returns once the update was attempted.
syncReport(read, filteredVars, syncResult) ==
    Results(TRUE, Len(filteredVars), syncResult.success,
            IF syncResult.success THEN read.errors
            ELSE Append(read.errors, MsgAmplifySyncFailed(syncResult.error)),
            syncResult.sent)

\* autoSyncFromEnvFile after the loop: `read` is what the loop left,
\* `filteredVars` the filtered mapping, `pushed` the mapping handed to
\* syncToAmplify.
syncRead(read, filteredVars, pushed, appId, update) ==
    IF ~read.foundEnvFile
        THEN Results(FALSE, 0, FALSE, Append(read.errors, MsgNoEnvFiles), <<>>)
    ELSE IF Len(filteredVars) = 0
        THEN Results(TRUE, 0, FALSE, Append(read.errors, MsgNoProductionVars), <<>>)
    ELSE syncReport(read, filteredVars, syncToAmplify(appId, pushed, update))

NothingRead == [envVars |-> EmptyObject, foundEnvFile |-> FALSE, errors |-> <<>>]

\* The mapping read from the files pushed as it is.
filterAndSync_PushesUnfiltered(read, appId, update) ==
    syncRead(read, filterProductionVars(read.envVars), read.envVars, appId, update)

\* The filtered mapping is the one pushed.
filterAndSync(read, appId, update) ==
    LET filteredVars == filterProductionVars(read.envVars)
    IN  syncRead(read, filteredVars, filteredVars, appId, update)

\* autoSyncFromEnvFile(projectPath, appId): `files` are the env files of
\* projectPath, `update` what the provider answers to the update.
autoSyncFromEnvFile(files, appId, update) ==
    filterAndSync(readEnvFiles(files, 1, NothingRead), appId, update)

\* Contents of env files.
FileContents ==
    { File(<< <<"A", "P", "I", "_", "K", "E", "Y", "=", "a", "b", "c">>,
       <<"P", "O", "R", "T", "=", "3", "0", "0", "0">>,
       <<"#", " ", "P", "O", "R", "T", "=", "1">> >>),
      File(<< <<"A", "P", "I", "_", "K", "E", "Y", "=", "\"", "x", "=", "y", "\"">>,
       <<"D", "B", "=", "h", "t", "t", "p", ":", "/", "/", "l", "o", "c", "a", "l", "h", "o", "s", "t">>,
       <<>>,
       <<"D", "E", "B", "U", "G", "=", "1">> >>),
      File(<< <<"N", "O", "D", "E", "_", "E", "N", "V", "=", "d", "e", "v">>,
       <<"E", "M", "P", "T", "Y", "=">>,
       <<"B", "L", "A", "N", "K", "=", "'", " ", "'">>,
       <<"n", "o", "e", "q", "u", "a", "l", "s">>,
       <<"=", "v">> >>),
      File(<< <<" ", "N", "A", "M", "E", " ", "=", " ", "x", " ", "\r">>,
       <<"2", "=", "b">>,
       <<"1", "=", "1", "2", "7", ".", "0", ".", "0", ".", "1">>,
       <<"Q", "=", "\"", "z">> >>) }
FileStates == {Absent, Unreadable} \cup FileContents

\* The env files of a directory: one state for each name of envFiles.
NoEnvFiles == <<Absent, Absent, Absent>>
EnvFileSets == [1..Len(envFiles) -> FileStates]

----------------------------------------------------------------------------
\* MCPServer: env files of the project directory and the sync_env_vars tool

\* An entry of the project directory: its name, whether it is a directory,
\* and the env files in it.
DirEntry(name, isDirectory, files) == [name |-> name, isDirectory |-> isDirectory, files |-> files]

\* A project directory: its env files, its entries, and whether readdirSync
\* can list it.
Project(files, entries, listable) == [files |-> files, entries |-> entries, listable |-> listable]

\* envFiles.some(file => fs.existsSync(path.join(dir, file)))
hasEnvIn(files) == \E i \in 1..Len(envFiles) : files[i].exists

SkippedNames == { <<"n", "o", "d", "e", "_", "m", "o", "d", "u", "l", "e", "s">>, <<"d", "i", "s", "t">>, <<"b", "u", "i", "l", "d">> }

\* The subdirectories searched: directories, not hidden, not build output.
subdirs(project) ==
    SelectSeq(project.entries,
              LAMBDA e : e.isDirectory /\ ~StartsWith(e.name, <<".">>) /\ e.name \notin SkippedNames)

hasEnvFiles(project) ==
    \/ hasEnvIn(project.files)
    \/ /\ project.listable
       /\ \E i \in 1..Len(subdirs(project)) : hasEnvIn(subdirs(project)[i].files)

\* The directory findProjectWithEnvFiles returns: <<>> is projectPath itself,
\* <<name>> the subdirectory of that name.
ProjectPath == <<>>
findProjectWithEnvFiles(project) ==
    LET subs == subdirs(project)
        withEnv == {i \in 1..Len(subs) : hasEnvIn(subs[i].files)}
    IN  IF hasEnvIn(project.files) THEN ProjectPath
        ELSE IF project.listable /\ withEnv # {}
            THEN <<subs[CHOOSE i \in withEnv : \A j \in withEnv : i <= j].name>>
        ELSE ProjectPath

\* The env files of the directory at `path` of the project.
FilesAt(project, path) ==
    IF path = ProjectPath THEN project.files
    ELSE LET at == {i \in 1..Len(project.entries) :
                      project.entries[i].isDirectory /\ project.entries[i].name = path[1]}
         IN  IF at = {} THEN NoEnvFiles ELSE project.entries[CHOOSE i \in at : TRUE].files

MsgProjectPathRequired == <<"project_path is required">>
MsgAppIdRequired == <<"app_id is required">>

NoResults == Results(FALSE, 0, FALSE, <<>>, <<>>)

\* The answer of handleSyncEnvVars once autoSyncFromEnvFile returned.
syncAnswer(results) == [result |-> Ok(results.synced, <<>>), results |-> results]

\* handleSyncEnvVars: autoSyncFromEnvFile on project_path, then the report.
handleSyncEnvVars(hasPath, project, appId, update) ==
    IF ~hasPath THEN [result |-> Throw(MsgProjectPathRequired, <<>>), results |-> NoResults]
    ELSE IF appId = Undefined THEN [result |-> Throw(MsgAppIdRequired, <<>>), results |-> NoResults]
    ELSE syncAnswer(autoSyncFromEnvFile(project.files, appId, update))

\* Entries of project directories.
OneEnvFile == <<File(<<<<"T", "O", "K", "E", "N", "=", "t", "0">>, <<"H", "O", "S", "T", "=", "h">>>>), Absent, Absent>>
EntryLists ==
    { <<>>,
      <<DirEntry(<<"w", "e", "b">>, TRUE, OneEnvFile)>>,
      <<DirEntry(<<"n", "o", "d", "e", "_", "m", "o", "d", "u", "l", "e", "s">>, TRUE, OneEnvFile), DirEntry(<<"w", "e", "b">>, TRUE, OneEnvFile)>>,
      <<DirEntry(<<".", "g", "i", "t">>, TRUE, OneEnvFile), DirEntry(<<"n", "o", "t", "e", "s">>, FALSE, NoEnvFiles)>>,
      <<DirEntry(<<"a", "p", "i">>, TRUE, NoEnvFiles), DirEntry(<<"w", "e", "b">>, TRUE, OneEnvFile)>> }
EnvProjects == {Project(files, entries, listable) :
                    files \in EnvFileSets, entries \in EntryLists, listable \in BOOLEAN}

\* The values of the sync_env_vars argument of deploy_to_amplify: absent, or
\* the boolean the tool's input schema declares.
SyncDecisions == {Undefined, "true", "false"}

MsgProjectPathRequiredForDeploy == <<"project_path is required for deployment.">>

\* The deployment started without asking when no decision was given.
handleDeployDecision_NeverAsks(hasPath, detected, decision) ==
    IF ~hasPath THEN "error" ELSE "deploy"

\* The head of handleDeploy: fail without project_path, ask for consent when
\* env files are detected and no decision was given, deploy otherwise.
handleDeployDecision(hasPath, detected, decision) ==
    IF ~hasPath THEN "error"
    ELSE IF detected /\ decision = Undefined THEN "consent"
    ELSE "deploy"

\* What the answer of a started deployment says about the env variables.
envSyncNote(detected, decision) ==
    IF detected /\ decision = "true" THEN "Will sync after app is ready"
    ELSE IF detected /\ decision = "false" THEN "Skipped (disabled by user)"
    ELSE IF decision = "true" /\ ~detected THEN "No .env files found in project directory"
    ELSE Undefined

DeployResponse(kind, appId, url, note, text) ==
    [kind |-> kind, appId |-> appId, url |-> url, envSync |-> note, text |-> text]
PendingResponse == DeployResponse("pending", Undefined, NoUrl, Undefined, <<>>)

\* The tail of handleDeploy: the answer made of what deployForMCPBackground
\* returned or threw.
handleDeployAnswer(args, outcome) ==
    IF outcome.kind = "returned"
        THEN DeployResponse("started", outcome.value.appId, outcome.value.url,
                            envSyncNote(args.hasEnvFiles, args.sync_env_vars), <<>>)
        ELSE DeployResponse("error", Undefined, NoUrl, Undefined,
                            <<"Deployment failed: ">> \o outcome.err)

\* Project directories deploy_to_amplify is called on.
DeployProjects ==
    { Project(OneEnvFile, <<>>, TRUE),
      Project(NoEnvFiles, <<DirEntry(<<"w", "e", "b">>, TRUE, OneEnvFile)>>, TRUE),
      Project(NoEnvFiles, <<DirEntry(<<"n", "o", "d", "e", "_", "m", "o", "d", "u", "l", "e", "s">>, TRUE, OneEnvFile)>>, TRUE) }

\* Keys and values of environment variables.
EnvKeys ==
    { <<"A", "P", "I", "_", "K", "E", "Y">>,
      <<"P", "o", "r", "t">>,
      <<"D", "E", "V", "I", "C", "E">>,
      <<"S", "H", "O", "S", "T">>,
      <<"2">>,
      <<"1">> }
EnvValues ==
    { <<"a", "b", "c">>,
      <<>>,
      <<" ", "\t">>,
      <<"h", "t", "t", "p", ":", "/", "/", "L", "o", "c", "a", "l", "H", "o", "s", "t", ":", "1">>,
      <<"1", "2", "7", ".", "0", ".", "0", ".", "1">>,
      <<"d", "e", "v">> }

MaxVars == 2

\* The objects with at most n entries, built one assignment at a time.
RECURSIVE ObjectsUpTo(_)
ObjectsUpTo(n) ==
    IF n = 0 THEN {EmptyObject}
    ELSE LET smaller == ObjectsUpTo(n - 1)
         IN  smaller \cup {ObjectSet(o, k, v) : o \in smaller, k \in EnvKeys, v \in EnvValues}
EnvVarSets == ObjectsUpTo(MaxVars)

----------------------------------------------------------------------------
\* DeploymentPipeline: one invocation at a time of deploy, deployForMCP or
\* deployForMCPBackground, one action per awaited step.

VARIABLES
    pc,             \* the step the invocation is at
    fn,             \* the entry point invoked
    options,        \* its options (branch)
    repoInfo,       \* const repoInfo
    githubToken,    \* const githubToken
    appInfo,        \* const appInfo (the app id)
    attempts,       \* waitForDeployment: let attempts
    stage,          \* waitForDeployment: const stage, in the pass that settled the poll
    waitResult,     \* what waitForDeployment returned or threw
    result,         \* what the invocation returned or threw
    trace,          \* this invocation's completed steps and external calls, in order
    history,        \* config.deployments
    storedToken,    \* the secret store's github-token
    envToken,       \* process.env.GITHUB_TOKEN
    amplifyClient,  \* this.amplifyClient is set
    remoteApps,     \* the apps that exist at the provider
    invocations,    \* invocations started
    terminalSeen,   \* history variable: this poll has read PRODUCTION or FAILED
    cred,           \* the last call of the credential validator made on its own
    tool,           \* the arguments of the deploy_to_amplify call being handled
    response,       \* what handleDeploy answered
    envCall,        \* the last call of the environment manager made on its own
    remoteApp,      \* the app the status check reads at the provider
    statusLog,      \* what the status checks made so far returned or threw
    added,          \* history variable: the records passed to addDeployment, in order
    unitCall,       \* the last call made on its own of validateProject or createAmplifyApp
    writers         \* the addDeployment calls in flight: where each is, and the config it read

vars == <<pc, fn, options, repoInfo, githubToken, appInfo, attempts, stage, waitResult,
          result, trace, history, storedToken, envToken, amplifyClient, remoteApps,
          invocations, terminalSeen, cred, tool, response, envCall, remoteApp, statusLog,
          added, unitCall, writers>>

McpVars == <<tool, response>>
HarnessVars == <<cred, envCall, remoteApp, statusLog, added, unitCall, writers>>

EntryPoints == {"deploy", "deployForMCP", "deployForMCPBackground"}
NoEntryPoint == "none"
Branches == {"main", Undefined}

NoReturn == [appId |-> Undefined, url |-> NoUrl, status |-> Undefined]
Pending == [kind |-> "none", value |-> NoReturn, err |-> <<>>]
Returned(value) == [kind |-> "returned", value |-> value, err |-> <<>>]
Thrown(msg) == [kind |-> "thrown", value |-> NoReturn, err |-> msg]
NoWait == [ok |-> FALSE, value |-> NoUrl, err |-> <<>>, calls |-> <<>>]
NoCall == [op |-> "none"]
NoTool == [name |-> "none"]
NoResponse == [kind |-> "none"]
NoRemoteApp == [name |-> Undefined]
NoWriters == <<>>

\* catch (error) { throw new Error(`Deployment failed: ${error.message}`) } in the
\* two MCP entry points; deploy rethrows the error itself.
Rethrow(entry, msg) ==
    IF entry = "deploy" THEN msg ELSE <<"Deployment failed: ">> \o msg

StepDone(step) == "ok:" \o step

\* The repository-bound check left out of the sequence.
NextStep_SkipsRepositoryCheck(entry, step) ==
    CASE step = "validateProject" -> "ensureAmplifyConfig"
      [] step = "ensureAmplifyConfig" -> "ensureGitHubRepo"
      [] step = "ensureGitHubRepo" -> "ensureGitHubAuth"
      [] step = "ensureGitHubAuth" -> "createAmplifyApp"
      [] step = "createAmplifyApp" ->
            IF entry = "deploy" THEN "waitForDeployment" ELSE "addDeployment"
      [] step = "addDeployment" ->
            IF entry = "deployForMCP" THEN "waitForDeployment" ELSE "done"
      [] step = "waitForDeployment" -> "settle"
      [] OTHER -> "done"

\* The background entry point going on to poll after recording the deployment.
NextStep_BackgroundPolls(entry, step) ==
    CASE step = "validateProject" -> "ensureAmplifyConfig"
      [] step = "ensureAmplifyConfig" -> "ensureGitHubRepo"
      [] step = "ensureGitHubRepo" -> "ensureGitHubAuth"
      [] step = "ensureGitHubAuth" -> "validateGitHubTokenForRepository"
      [] step = "validateGitHubTokenForRepository" -> "createAmplifyApp"
      [] step = "createAmplifyApp" ->
            IF entry = "deploy" THEN "waitForDeployment" ELSE "addDeployment"
      [] step = "addDeployment" -> "waitForDeployment"
      [] step = "waitForDeployment" -> "settle"
      [] OTHER -> "done"

\* The MCP entry points going on without recording the deployment.
NextStep_RecordsNothing(entry, step) ==
    CASE step = "validateProject" -> "ensureAmplifyConfig"
      [] step = "ensureAmplifyConfig" -> "ensureGitHubRepo"
      [] step = "ensureGitHubRepo" -> "ensureGitHubAuth"
      [] step = "ensureGitHubAuth" -> "validateGitHubTokenForRepository"
      [] step = "validateGitHubTokenForRepository" -> "createAmplifyApp"
      [] step = "createAmplifyApp" ->
            IF entry = "deployForMCPBackground" THEN "done" ELSE "waitForDeployment"
      [] step = "waitForDeployment" -> "settle"
      [] OTHER -> "done"

\* The order of the awaited steps in the body of each entry point.
NextStep(entry, step) ==
    CASE step = "validateProject" -> "ensureAmplifyConfig"
      [] step = "ensureAmplifyConfig" -> "ensureGitHubRepo"
      [] step = "ensureGitHubRepo" -> "ensureGitHubAuth"
      [] step = "ensureGitHubAuth" -> "validateGitHubTokenForRepository"
      [] step = "validateGitHubTokenForRepository" -> "createAmplifyApp"
      [] step = "createAmplifyApp" ->
            IF entry = "deploy" THEN "waitForDeployment" ELSE "addDeployment"
      [] step = "addDeployment" ->
            IF entry = "deployForMCP" THEN "waitForDeployment" ELSE "done"
      [] step = "waitForDeployment" -> "settle"
      [] OTHER -> "done"

Init ==
    /\ pc = "idle"
    /\ fn = "deploy"
    /\ options = [branch |-> "main"]
    /\ repoInfo = NoRepoInfo
    /\ githubToken = NoToken
    /\ appInfo = Undefined
    /\ attempts = 0
    /\ stage = Undefined
    /\ waitResult = NoWait
    /\ result = Pending
    /\ trace = <<>>
    /\ history = <<>>
    /\ storedToken \in Tokens \cup {NoToken}
    /\ envToken \in EnvTokens
    /\ amplifyClient = FALSE
    /\ remoteApps = {}
    /\ invocations = 0
    /\ terminalSeen = FALSE
    /\ cred = NoCall
    /\ tool = NoTool
    /\ response = NoResponse
    /\ envCall = NoCall
    /\ remoteApp = NoRemoteApp
    /\ statusLog = <<>>
    /\ added = <<>>
    /\ unitCall = NoCall
    /\ writers = NoWriters

\* A step that completed with r: the invocation goes on to the next step, or
\* ends with the error r carries.
StepOutcome(step, r) ==
    /\ trace' = trace \o r.calls \o (IF r.ok THEN <<StepDone(step)>> ELSE <<>>)
    /\ pc' = IF r.ok THEN NextStep(fn, step) ELSE "done"
    /\ result' = IF r.ok THEN result ELSE Thrown(Rethrow(fn, r.err))

\* An entry point is called; initialize() sets the provider client unless
\* reading the AWS configuration throws.
Start ==
    /\ pc \in {"idle", "done"}
    /\ response.kind # "pending"
    /\ invocations < MaxInvocations
    /\ invocations' = invocations + 1
    /\ fn' \in EntryPoints
    /\ \E b \in Branches : options' = [branch |-> b]
    /\ \E initOk \in BOOLEAN : amplifyClient' = (amplifyClient \/ initOk)
    /\ pc' = "validateProject"
    /\ repoInfo' = NoRepoInfo
    /\ githubToken' = NoToken
    /\ appInfo' = Undefined
    /\ attempts' = 0
    /\ stage' = Undefined
    /\ waitResult' = NoWait
    /\ result' = Pending
    /\ trace' = <<>>
    /\ terminalSeen' = FALSE
    /\ tool' = NoTool
    /\ response' = NoResponse
    /\ UNCHANGED <<history, storedToken, envToken, remoteApps, HarnessVars>>

ValidateProject ==
    /\ pc = "validateProject"
    /\ \E project \in Projects : StepOutcome("validateProject", validateProject(project))
    /\ UNCHANGED <<fn, options, repoInfo, githubToken, appInfo, attempts, stage, waitResult,
                   history, storedToken, envToken, amplifyClient, remoteApps, invocations, terminalSeen, McpVars, HarnessVars>>

EnsureAmplifyConfig ==
    /\ pc = "ensureAmplifyConfig"
    /\ \E hasConfig \in BOOLEAN, writeOk \in BOOLEAN :
          StepOutcome("ensureAmplifyConfig", ensureAmplifyConfig(hasConfig, writeOk))
    /\ UNCHANGED <<fn, options, repoInfo, githubToken, appInfo, attempts, stage, waitResult,
                   history, storedToken, envToken, amplifyClient, remoteApps, invocations, terminalSeen, McpVars, HarnessVars>>

EnsureGitHubRepo ==
    /\ pc = "ensureGitHubRepo"
    /\ \E remote \in Remotes :
          LET r == ensureGitHubRepo(remote)
          IN  /\ StepOutcome("ensureGitHubRepo", r)
              /\ repoInfo' = IF r.ok THEN r.value ELSE repoInfo
    /\ UNCHANGED <<fn, options, githubToken, appInfo, attempts, stage, waitResult,
                   history, storedToken, envToken, amplifyClient, remoteApps, invocations, terminalSeen, McpVars, HarnessVars>>

EnsureGitHubAuth ==
    /\ pc = "ensureGitHubAuth"
    /\ \E userStatus \in UserStatuses, reposStatus \in ReposStatuses, scopes \in ScopeHeaders :
          LET a == ensureGitHubAuth(storedToken, envToken, userStatus, reposStatus, scopes)
          IN  /\ StepOutcome("ensureGitHubAuth", a.result)
              /\ storedToken' = a.store
              /\ githubToken' = IF a.result.ok THEN a.result.value ELSE githubToken
    /\ UNCHANGED <<fn, options, repoInfo, appInfo, attempts, stage, waitResult,
                   history, envToken, amplifyClient, remoteApps, invocations, terminalSeen, McpVars, HarnessVars>>

ValidateGitHubTokenForRepository ==
    /\ pc = "validateGitHubTokenForRepository"
    /\ \E repoStatus \in RepoStatuses, hooksStatus \in HooksStatuses :
          StepOutcome("validateGitHubTokenForRepository",
                      validateGitHubTokenForRepository(githubToken, repoInfo, repoStatus, hooksStatus))
    /\ UNCHANGED <<fn, options, repoInfo, githubToken, appInfo, attempts, stage, waitResult,
                   history, storedToken, envToken, amplifyClient, remoteApps, invocations, terminalSeen, McpVars, HarnessVars>>

CreateAmplifyApp ==
    /\ pc = "createAmplifyApp"
    /\ \E app \in CallOutcomes, branch \in CallOutcomes, job \in CallOutcomes :
          LET id == AppId(Cardinality(remoteApps) + 1)
              p == createAmplifyApp(amplifyClient, id, repoInfo.repository, app, branch, job)
          IN  /\ StepOutcome("createAmplifyApp", p.result)
              /\ appInfo' = IF p.result.ok THEN p.result.value ELSE appInfo
              /\ remoteApps' = IF p.created THEN remoteApps \cup {id} ELSE remoteApps
    /\ UNCHANGED <<fn, options, repoInfo, githubToken, attempts, stage, waitResult,
                   history, storedToken, envToken, amplifyClient, invocations, terminalSeen, McpVars, HarnessVars>>

\* "Save deployment to history immediately after app creation"; the
\* background entry point then returns.
AddDeployment ==
    /\ pc = "addDeployment"
    /\ history' = addDeployment(history,
            Deployment(appInfo, IF fn = "deployForMCP" THEN "CREATED" ELSE "PROVISIONING", NoUrl))
    /\ pc' = NextStep(fn, "addDeployment")
    /\ trace' = trace \o <<StepDone("addDeployment")>>
    /\ result' = IF fn = "deployForMCPBackground"
            THEN Returned([appId |-> appInfo,
                           url |-> Url(IF options.branch = Undefined THEN "main" ELSE options.branch,
                                       DefaultDomain(appInfo)),
                           status |-> "PROVISIONING"])
            ELSE result
    /\ UNCHANGED <<fn, options, repoInfo, githubToken, appInfo, attempts, stage, waitResult,
                   storedToken, envToken, amplifyClient, remoteApps, invocations, terminalSeen, McpVars, HarnessVars>>

\* What the entry point gets from waitForDeployment: the URL it returned,
\* none when it threw.
PollResult(r) == [r EXCEPT !.value = IF r.ok THEN @ ELSE NoUrl]

\* One pass of the polling loop, or the code after it.
WaitForDeployment ==
    /\ pc = "waitForDeployment"
    /\ \E branchRead \in ReadOutcomes, stageRead \in Stages, appRead \in ReadOutcomes :
          LET w == waitForDeploymentStep(attempts, appInfo, options.branch,
                                         branchRead, stageRead, appRead)
          IN  /\ attempts' = w.attempts
              /\ stage' = IF w.settled /\ attempts < maxAttempts /\ branchRead = NoError
                            THEN stageRead ELSE stage
              /\ trace' = trace \o w.result.calls
              /\ waitResult' = IF w.settled THEN PollResult(w.result) ELSE waitResult
              /\ pc' = IF w.settled THEN NextStep(fn, "waitForDeployment") ELSE pc
              /\ terminalSeen' = (terminalSeen \/ (attempts < maxAttempts /\ branchRead = NoError
                                                    /\ stageRead \in {"PRODUCTION", "FAILED"}))
    /\ UNCHANGED <<fn, options, repoInfo, githubToken, appInfo, result,
                   history, storedToken, envToken, amplifyClient, remoteApps, invocations, McpVars, HarnessVars>>

\* What the entry point does with the outcome of waitForDeployment.
IsPartialOrTimeout(msg) == Includes(msg, "PARTIAL_SUCCESS:") \/ Includes(msg, "TIMEOUT:")

Settle ==
    /\ pc = "settle"
    /\ pc' = "done"
    /\ trace' = trace \o <<StepDone("waitForDeployment")>>
    /\ result' = IF waitResult.ok
            THEN Returned([appId |-> appInfo, url |-> waitResult.value, status |-> Undefined])
            ELSE Thrown(Rethrow(fn, waitResult.err))
    /\ history' =
          IF fn # "deployForMCP" THEN history
          ELSE IF waitResult.ok
              THEN addDeployment(history, Deployment(appInfo, "DEPLOYED", waitResult.value))
          ELSE IF IsPartialOrTimeout(waitResult.err)
              THEN addDeployment(history,
                      Deployment(appInfo, "DEPLOYING",
                                 <<"https://", TemplateStr(options.branch), ".", appInfo, ".amplifyapp.com">>))
          ELSE history
    /\ UNCHANGED <<fn, options, repoInfo, githubToken, appInfo, attempts, stage, waitResult,
                   storedToken, envToken, amplifyClient, remoteApps, invocations, terminalSeen, McpVars, HarnessVars>>

\* deploy_to_amplify is called: handleDeploy up to its call of
\* deployForMCPBackground (whose first step is initialize), or its answer
\* when it does not get there.
HandleDeploy ==
    /\ pc \in {"idle", "done"}
    /\ response.kind # "pending"
    /\ invocations < MaxInvocations
    /\ invocations' = invocations + 1
    /\ \E hasPath \in BOOLEAN, project \in DeployProjects, decision \in SyncDecisions,
          initOk \in BOOLEAN :
          LET args == [name |-> "deploy_to_amplify", hasEnvFiles |-> (hasPath /\ hasEnvFiles(project)),
                       sync_env_vars |-> decision]
              next == handleDeployDecision(hasPath, args.hasEnvFiles, decision)
          IN  /\ tool' = args
              /\ pc' = IF next = "deploy" THEN "validateProject" ELSE "done"
              /\ fn' = IF next = "deploy" THEN "deployForMCPBackground" ELSE NoEntryPoint
              /\ amplifyClient' = IF next = "deploy" THEN (amplifyClient \/ initOk) ELSE amplifyClient
              /\ response' =
                    CASE next = "deploy" -> PendingResponse
                      [] next = "consent" ->
                            DeployResponse("consent", Undefined, NoUrl, Undefined,
                                <<"Environment Variables Detected">>)
                      [] OTHER ->
                            DeployResponse("error", Undefined, NoUrl, Undefined,
                                <<"Deployment failed: ">> \o MsgProjectPathRequiredForDeploy)
    /\ options' = [branch |-> "main"]
    /\ repoInfo' = NoRepoInfo
    /\ githubToken' = NoToken
    /\ appInfo' = Undefined
    /\ attempts' = 0
    /\ stage' = Undefined
    /\ waitResult' = NoWait
    /\ result' = Pending
    /\ trace' = <<>>
    /\ terminalSeen' = FALSE
    /\ UNCHANGED <<history, storedToken, envToken, remoteApps, HarnessVars>>

\* deployForMCPBackground has returned or thrown: handleDeploy answers.
HandleDeployAnswer ==
    /\ pc = "done"
    /\ response.kind = "pending"
    /\ response' = handleDeployAnswer(tool, result)
    /\ UNCHANGED <<pc, fn, options, repoInfo, githubToken, appInfo, attempts, stage, waitResult,
                   result, trace, history, storedToken, envToken, amplifyClient, remoteApps,
                   invocations, terminalSeen, tool, HarnessVars>>

Next ==
    \/ Start
    \/ HandleDeploy
    \/ HandleDeployAnswer
    \/ ValidateProject
    \/ EnsureAmplifyConfig
    \/ EnsureGitHubRepo
    \/ EnsureGitHubAuth
    \/ ValidateGitHubTokenForRepository
    \/ CreateAmplifyApp
    \/ AddDeployment
    \/ WaitForDeployment
    \/ Settle

Spec == Init /\ [][Next]_vars

----------------------------------------------------------------------------
\* The credential validator on its own: every token source, every response
\* of the source-control host.

PipelineVars == <<pc, fn, options, repoInfo, githubToken, appInfo, attempts, stage,
                  waitResult, result, trace, history, storedToken, envToken,
                  amplifyClient, remoteApps, invocations, terminalSeen, tool, response>>

InitCred ==
    /\ pc = "idle"
    /\ fn = "deploy"
    /\ options = [branch |-> "main"]
    /\ repoInfo = NoRepoInfo
    /\ githubToken = NoToken
    /\ appInfo = Undefined
    /\ attempts = 0
    /\ stage = Undefined
    /\ waitResult = NoWait
    /\ result = Pending
    /\ trace = <<>>
    /\ history = <<>>
    /\ storedToken = NoToken
    /\ envToken = NoToken
    /\ amplifyClient = FALSE
    /\ remoteApps = {}
    /\ invocations = 0
    /\ terminalSeen = FALSE
    /\ cred = NoCall
    /\ tool = NoTool
    /\ response = NoResponse
    /\ envCall = NoCall
    /\ remoteApp = NoRemoteApp
    /\ statusLog = <<>>
    /\ added = <<>>
    /\ unitCall = NoCall
    /\ writers = NoWriters

CallEnsureGitHubAuth ==
    /\ cred.op = "none"
    /\ \E stored \in Tokens \cup {NoToken}, env \in EnvTokens,
          userStatus \in UserStatuses, reposStatus \in ReposStatuses,
          present \in BOOLEAN, granted \in ScopeLists :
          LET header == IF present THEN HeaderOf(granted) ELSE AbsentHeader
              a == ensureGitHubAuth(stored, env, userStatus, reposStatus, header)
          IN  cred' = [op |-> "ensureGitHubAuth",
                       token |-> IF stored = NoToken THEN env ELSE stored,
                       userStatus |-> userStatus, reposStatus |-> reposStatus,
                       present |-> present, granted |-> granted,
                       store |-> a.store, result |-> a.result]
    /\ UNCHANGED <<PipelineVars, envCall, remoteApp, statusLog, added, unitCall, writers>>

CallValidateGitHubTokenForRepository ==
    /\ cred.op = "none"
    /\ \E remote \in {GitHubRemote, OtherRemote},
          repoStatus \in RepoStatuses, hooksStatus \in HooksStatuses :
          LET info == ensureGitHubRepo(remote).value
          IN  cred' = [op |-> "validateGitHubTokenForRepository",
                       repoInfo |-> info, repoStatus |-> repoStatus,
                       hooksStatus |-> hooksStatus,
                       result |-> validateGitHubTokenForRepository(ClassicToken, info,
                                                                   repoStatus, hooksStatus)]
    /\ UNCHANGED <<PipelineVars, envCall, remoteApp, statusLog, added, unitCall, writers>>

NextCred ==
    \/ CallEnsureGitHubAuth
    \/ CallValidateGitHubTokenForRepository

SpecCred == InitCred /\ [][NextCred]_vars

----------------------------------------------------------------------------
\* The environment manager on its own: every variable set, every layout of
\* env files.

InitEnv == InitCred

CallFilterProductionVars ==
    /\ envCall.op = "none"
    /\ \E envVars \in EnvVarSets :
          envCall' = [op |-> "filterProductionVars", input |-> envVars,
                      output |-> filterProductionVars(envVars)]
    /\ UNCHANGED <<PipelineVars, cred, remoteApp, statusLog, added, unitCall, writers>>

CallHandleSyncEnvVars ==
    /\ envCall.op = "none"
    /\ \E hasPath \in BOOLEAN, project \in EnvProjects, appId \in {AppId(1), Undefined},
          update \in UpdateOutcomes :
          \E h \in {handleSyncEnvVars(hasPath, project, appId, update)} :
              envCall' = [op |-> "handleSyncEnvVars", hasPath |-> hasPath, project |-> project,
                          appId |-> appId, update |-> update,
                          result |-> h.result, results |-> h.results]
    /\ UNCHANGED <<PipelineVars, cred, remoteApp, statusLog, added, unitCall, writers>>

NextEnv ==
    \/ CallFilterProductionVars
    \/ CallHandleSyncEnvVars

SpecEnv == InitEnv /\ [][NextEnv]_vars

----------------------------------------------------------------------------
\* The status check: getStatus and the check_deployment_status handler, as
\* calls made by independent callers whose reads interleave.

MaxCallers == 2
Callers == 1..MaxCallers

\* The app at the provider: its name, its default domain, its branches as
\* ListBranches gives them.
Branch(branchName, branchStage) == [branchName |-> branchName, stage |-> branchStage]
RemoteApp(name, defaultDomain, branches) ==
    [name |-> name, defaultDomain |-> defaultDomain, branches |-> branches]
RemoteAppStates ==
    {NoRemoteApp} \cup
    { RemoteApp("site", domain, branches) :
        domain \in {<<"app1", ".amplifyapp.com">>, <<>>},
        branches \in { <<>>,
                       <<Branch("main", "PRODUCTION")>>,
                       <<Branch("dev", "RUNNING"), Branch("main", "SUCCEED")>>,
                       <<Branch("dev", "PRODUCTION"), Branch("main", "RUNNING")>>,
                       <<Branch("feature", "FAILED"), Branch("dev", "PENDING")>>,
                       <<Branch("master", Undefined)>> } }

NotFound == [name |-> "NotFoundException", message |-> <<"App not found.">>]

MsgFailedToGetStatus(inner, appId) ==
    <<"Failed to get app status: ">> \o inner \o <<". App ID: ", appId>>

\* What getStatus returns.
Status(appName, status, branch, url) ==
    [appName |-> appName, status |-> status, branch |-> branch, url |-> url]
NoStatus == Status(Undefined, Undefined, Undefined, NoUrl)

\* branches.find(b => b.stage === 'PRODUCTION' || b.branchName === 'main' ||
\* b.branchName === 'master'), or the first branch.
targetBranch(branches) ==
    LET found == {i \in 1..Len(branches) :
                    \/ branches[i].stage = "PRODUCTION"
                    \/ branches[i].branchName \in {"main", "master"}}
    IN  IF found = {} THEN branches[1]
        ELSE branches[CHOOSE i \in found : \A j \in found : i <= j]

\* What the handler answers: the status, branch and URL it shows, whether it
\* shows the URL as live and the deployment as completed, and whether it
\* found the app in the deployment history.
StatusResponse(isError, status, live, completed, inHistory) ==
    [isError |-> isError, status |-> status.status, branch |-> status.branch,
     url |-> status.url, live |-> live, completed |-> completed, inHistory |-> inHistory]
NoStatusResponse == StatusResponse(FALSE, NoStatus, FALSE, FALSE, FALSE)

\* A call of the handler: where it is, what getStatus read, returned or threw.
StatusCall(at, target, out, err, calls, answer) ==
    [pc |-> at, target |-> target, out |-> out, err |-> err, calls |-> calls, answer |-> answer]
NoStatusCall == StatusCall("idle", Undefined, NoStatus, <<>>, <<>>, NoStatusResponse)

\* config?.deployments || []
getDeploymentHistory(deployments) == deployments

\* The rest of handleStatus once getStatus has returned or thrown.
handleStatusAnswer(call, appId, deployments) ==
    IF call.err # <<>> THEN StatusResponse(TRUE, NoStatus, FALSE, FALSE, FALSE)
    ELSE LET done == call.out.status \in {"PRODUCTION", "SUCCEED"}
             known == \E i \in 1..Len(getDeploymentHistory(deployments)) :
                         getDeploymentHistory(deployments)[i].appId = appId
         IN  StatusResponse(FALSE, call.out, done /\ call.out.url # NoUrl, done, known)

\* A status check that refreshes the history record of the app.
statusStep_RecordsStatus(call, appId, client, app, deployments, initOk, read) ==
    LET fail(error, calls) ==
            [call |-> [call EXCEPT !.pc = "respond",
                                   !.err = MsgFailedToGetStatus(error.message, appId),
                                   !.calls = call.calls \o calls],
             client |-> client, deployments |-> deployments]
        return(status, calls) ==
            [call |-> [call EXCEPT !.pc = "respond", !.out = status,
                                   !.calls = call.calls \o calls],
             client |-> client,
             deployments |-> addDeployment(deployments, Deployment(appId, status.status, status.url))]
        url(branchName) ==
            IF app.defaultDomain # <<>> THEN Url(branchName, app.defaultDomain) ELSE NoUrl
    IN  CASE call.pc = "idle" ->
                [call |-> [call EXCEPT !.pc = "getApp"], client |-> (client \/ initOk),
                 deployments |-> deployments]
          [] call.pc = "getApp" ->
                IF ~client THEN fail(NullClientError, <<>>)
                ELSE IF read # NoError THEN fail(read, <<"getApp">>)
                ELSE IF app = NoRemoteApp THEN fail(NotFound, <<"getApp">>)
                ELSE [call |-> [call EXCEPT !.pc = "listBranches", !.calls = call.calls \o <<"getApp">>],
                      client |-> client, deployments |-> deployments]
          [] call.pc = "listBranches" ->
                IF ~client THEN fail(NullClientError, <<>>)
                ELSE IF read # NoError THEN fail(read, <<"listBranches">>)
                ELSE IF app = NoRemoteApp THEN fail(NotFound, <<"listBranches">>)
                ELSE IF app.branches = <<>>
                    THEN return(Status(app.name, "NO_BRANCHES", "None", NoUrl), <<"listBranches">>)
                ELSE [call |-> [call EXCEPT !.pc = "getBranch",
                                            !.target = targetBranch(app.branches).branchName,
                                            !.calls = call.calls \o <<"listBranches">>],
                      client |-> client, deployments |-> deployments]
          [] call.pc = "getBranch" ->
                IF ~client THEN fail(NullClientError, <<>>)
                ELSE IF read # NoError THEN fail(read, <<"getBranch">>)
                ELSE IF app = NoRemoteApp THEN fail(NotFound, <<"getBranch">>)
                ELSE LET branch == targetBranch(app.branches)
                     IN  return(Status(app.name,
                                       IF branch.stage = Undefined THEN "UNKNOWN" ELSE branch.stage,
                                       branch.branchName, url(branch.branchName)),
                                <<"getBranch">>)
          [] OTHER ->
                [call |-> [call EXCEPT !.pc = "done",
                                       !.answer = handleStatusAnswer(call, appId, deployments)],
                 client |-> client, deployments |-> deployments]

\* One step of a check_deployment_status call: initialize, the three reads
\* of getStatus, then the handler's answer. It gives the call afterwards,
\* whether the client is set and the stored deployments.
statusStep(call, appId, client, app, deployments, initOk, read) ==
    LET fail(error, calls) ==
            [call |-> [call EXCEPT !.pc = "respond",
                                   !.err = MsgFailedToGetStatus(error.message, appId),
                                   !.calls = call.calls \o calls],
             client |-> client, deployments |-> deployments]
        return(status, calls) ==
            [call |-> [call EXCEPT !.pc = "respond", !.out = status,
                                   !.calls = call.calls \o calls],
             client |-> client, deployments |-> deployments]
        url(branchName) ==
            IF app.defaultDomain # <<>> THEN Url(branchName, app.defaultDomain) ELSE NoUrl
    IN  CASE call.pc = "idle" ->
                [call |-> [call EXCEPT !.pc = "getApp"], client |-> (client \/ initOk),
                 deployments |-> deployments]
          [] call.pc = "getApp" ->
                IF ~client THEN fail(NullClientError, <<>>)
                ELSE IF read # NoError THEN fail(read, <<"getApp">>)
                ELSE IF app = NoRemoteApp THEN fail(NotFound, <<"getApp">>)
                ELSE [call |-> [call EXCEPT !.pc = "listBranches", !.calls = call.calls \o <<"getApp">>],
                      client |-> client, deployments |-> deployments]
          [] call.pc = "listBranches" ->
                IF ~client THEN fail(NullClientError, <<>>)
                ELSE IF read # NoError THEN fail(read, <<"listBranches">>)
                ELSE IF app = NoRemoteApp THEN fail(NotFound, <<"listBranches">>)
                ELSE IF app.branches = <<>>
                    THEN return(Status(app.name, "NO_BRANCHES", "None", NoUrl), <<"listBranches">>)
                ELSE [call |-> [call EXCEPT !.pc = "getBranch",
                                            !.target = targetBranch(app.branches).branchName,
                                            !.calls = call.calls \o <<"listBranches">>],
                      client |-> client, deployments |-> deployments]
          [] call.pc = "getBranch" ->
                IF ~client THEN fail(NullClientError, <<>>)
                ELSE IF read # NoError THEN fail(read, <<"getBranch">>)
                ELSE IF app = NoRemoteApp THEN fail(NotFound, <<"getBranch">>)
                ELSE LET branch == targetBranch(app.branches)
                     IN  return(Status(app.name,
                                       IF branch.stage = Undefined THEN "UNKNOWN" ELSE branch.stage,
                                       branch.branchName, url(branch.branchName)),
                                <<"getBranch">>)
          [] OTHER ->
                [call |-> [call EXCEPT !.pc = "done",
                                       !.answer = handleStatusAnswer(call, appId, deployments)],
                 client |-> client, deployments |-> deployments]

StatusVars == <<pc, fn, options, repoInfo, githubToken, appInfo, attempts, stage, waitResult,
                result, trace, storedToken, envToken, remoteApps, invocations, terminalSeen,
                tool, response, cred, envCall, added, unitCall, writers>>

\* The remote state and the stored history are whatever earlier deployments
\* left; no call has been made.
InitStatus ==
    /\ pc = "idle"
    /\ fn = "deploy"
    /\ options = [branch |-> "main"]
    /\ repoInfo = NoRepoInfo
    /\ githubToken = NoToken
    /\ appInfo = Undefined
    /\ attempts = 0
    /\ stage = Undefined
    /\ waitResult = NoWait
    /\ result = Pending
    /\ trace = <<>>
    /\ history \in {<<>>, <<Deployment(AppId(1), "PROVISIONING", NoUrl)>>}
    /\ storedToken = NoToken
    /\ envToken = NoToken
    /\ amplifyClient \in BOOLEAN
    /\ remoteApps = {}
    /\ invocations = 0
    /\ terminalSeen = FALSE
    /\ cred = NoCall
    /\ tool = NoTool
    /\ response = NoResponse
    /\ envCall = NoCall
    /\ remoteApp \in RemoteAppStates
    /\ statusLog = [c \in Callers |-> NoStatusCall]
    /\ added = <<>>
    /\ unitCall = NoCall
    /\ writers = NoWriters

\* A caller's check_deployment_status call takes its next step.
HandleStatus ==
    /\ \E c \in Callers, initOk \in BOOLEAN, read \in ReadOutcomes :
          /\ statusLog[c].pc # "done"
          /\ LET s == statusStep(statusLog[c], AppId(1), amplifyClient, remoteApp, history,
                                 initOk, read)
             IN  /\ statusLog' = [statusLog EXCEPT ![c] = s.call]
                 /\ amplifyClient' = s.client
                 /\ history' = s.deployments
    /\ UNCHANGED <<StatusVars, remoteApp>>

NextStatus ==
    \/ HandleStatus

SpecStatus == InitStatus /\ [][NextStatus]_vars

----------------------------------------------------------------------------
\* The deployment history on its own: addDeployment called again and again,
\* each call for a newly created app, every read of the config file giving
\* what the last call saved.

MaxAdds == 12

InitHistory == InitCred

PipelineVarsButHistory ==
    <<pc, fn, options, repoInfo, githubToken, appInfo, attempts, stage, waitResult, result,
      trace, storedToken, envToken, amplifyClient, remoteApps, invocations, terminalSeen,
      tool, response>>
HarnessVarsButAdded == <<cred, envCall, remoteApp, statusLog, unitCall, writers>>

CallAddDeployment ==
    /\ Len(added) < MaxAdds
    /\ \E status \in {"CREATED", "PROVISIONING"} :
          LET deployment == Deployment(AppId(Len(added) + 1), status, NoUrl)
          IN  /\ history' = addDeployment(history, deployment)
              /\ added' = Append(added, deployment)
    /\ UNCHANGED <<PipelineVarsButHistory, HarnessVarsButAdded>>

NextHistory ==
    \/ CallAddDeployment

SpecHistory == InitHistory /\ [][NextHistory]_vars

----------------------------------------------------------------------------
\* The token sources over time: the secret store and GITHUB_TOKEN as
\* successive invocations and the setup wizard find and leave them.

MsgTokenInvalid(status) == <<"GitHub token is invalid (", status, ")">>
MsgTokenMissingScope(scopes) ==
    <<"Token missing required scope. Current: ">> \o scopes \o <<". Required: admin:repo_hook">>

\* The validate function of the wizard's token prompt; the prompt is asked
\* again until it accepts the input.
promptAccepts(input) == Len(input) # 0 /\ StartsWith(input, ClassicPrefix)

\* validateGitHubAppToken: GET /user and the scopes header of its response.
validateGitHubAppToken(token, userStatus, scopes) ==
    LET c1 == <<"GET /user">>
    IN  IF userStatus = NetErr THEN Throw(MsgNetwork, c1)
        ELSE IF ~HttpOk(userStatus) THEN Throw(MsgTokenInvalid(userStatus), c1)
        ELSE IF Truthy(scopes) /\ ~IncludesSeq(scopes.value, ScopeAdminRepoHook)
            THEN Throw(MsgTokenMissingScope(scopes.value), c1)
        ELSE Ok(token, c1)

\* createPersonalAccessToken: the token is saved when validateGitHubAppToken
\* returns, and the error is thrown again when it throws.
createPersonalAccessToken(stored, token, userStatus, scopes) ==
    LET v == validateGitHubAppToken(token, userStatus, scopes)
    IN  [store |-> IF v.ok THEN token ELSE stored, result |-> v]

TokenSourcesFrame == <<pc, fn, options, repoInfo, appInfo, attempts, stage, waitResult,
                       result, trace, history, amplifyClient, remoteApps, invocations,
                       terminalSeen, tool, response, envCall, remoteApp, statusLog, added,
                       unitCall, writers>>

InitToken == InitCred

\* The environment the next invocation starts in: GITHUB_TOKEN is whatever
\* the process was started with.
SetGitHubTokenEnv ==
    /\ envToken' \in EnvTokens
    /\ envToken' # envToken
    /\ UNCHANGED <<TokenSourcesFrame, storedToken, githubToken, cred>>

\* The setup wizard asks for a token, validates it and saves it.
RunCreatePersonalAccessToken ==
    /\ \E token \in {t \in Tokens : promptAccepts(t)},
          userStatus \in UserStatuses, scopes \in ScopeHeaders :
          LET w == createPersonalAccessToken(storedToken, token, userStatus, scopes)
          IN  /\ storedToken' = w.store
              /\ cred' = [op |-> "createPersonalAccessToken", stored |-> storedToken,
                          env |-> envToken, token |-> token, store |-> w.store,
                          result |-> w.result]
    /\ UNCHANGED <<TokenSourcesFrame, envToken, githubToken>>

\* An invocation reaches ensureGitHubAuth.
RunEnsureGitHubAuth ==
    /\ \E userStatus \in UserStatuses, reposStatus \in ReposStatuses, scopes \in ScopeHeaders :
          LET a == ensureGitHubAuth(storedToken, envToken, userStatus, reposStatus, scopes)
          IN  /\ storedToken' = a.store
              /\ githubToken' = IF a.result.ok THEN a.result.value ELSE NoToken
              /\ cred' = [op |-> "ensureGitHubAuth", stored |-> storedToken,
                          env |-> envToken, token |-> a.token, store |-> a.store,
                          result |-> a.result]
    /\ UNCHANGED <<TokenSourcesFrame, envToken>>

NextToken ==
    \/ SetGitHubTokenEnv
    \/ RunCreatePersonalAccessToken
    \/ RunEnsureGitHubAuth

SpecToken == InitToken /\ [][NextToken]_vars

----------------------------------------------------------------------------
\* The project validator on its own: every manifest, every directory.

MaxDeps == 2

AllDependencies == FrameworkDependencies \cup CliDependencies \cup ServerDependencies

\* Names and descriptions of a manifest.
ProjectNames == {NoText, SiteName, Text(<<"m", "y", "-", "c", "l", "i">>), Text(<<"C", "L", "I">>)}
ProjectDescriptions == {NoDescription, Text(<<"A", " ", "C", "L", "I">>), Text(<<"w", "e", "b">>)}

\* The project directories: a manifest lists up to MaxDeps dependencies.
AllProjects ==
    [manifest : {"none", "invalid", "ok"},
     deps : {d \in SUBSET AllDependencies : Cardinality(d) <= MaxDeps},
     bin : BOOLEAN,
     name : ProjectNames,
     description : ProjectDescriptions,
     html : {"root", "subdir", "none"},
     readable : BOOLEAN,
     git : BOOLEAN]

InitProject == InitCred

CallValidateProject ==
    /\ unitCall.op = "none"
    /\ \E project \in AllProjects :
          unitCall' = [op |-> "validateProject", project |-> project,
                       result |-> validateProject(project)]
    /\ UNCHANGED <<PipelineVars, cred, envCall, remoteApp, statusLog, added, writers>>

NextProject ==
    \/ CallValidateProject

SpecProject == InitProject /\ [][NextProject]_vars

----------------------------------------------------------------------------
\* The provisioner on its own: every error the provider's client can raise
\* from each of the three calls.

AllProviderErrors ==
    [name : {"LimitExceededException", "BadRequestException", "UnauthorizedException"},
     message : { <<"Maximum number of apps reached">>,
                 <<"There was an issue setting up your ", "repository", ": ", "Bad credentials">>,
                 <<"GitHub ", "authentication", " failed">>,
                 <<"Invalid ", "repository", " URL">>,
                 <<"Authentication", " failed">>,
                 <<"Internal error">>,
                 <<>> },
     code : {Undefined, "BadRequest"},
     httpStatusCode : {"400"},
     requestId : {Undefined, "req-1"}]

InitProvision == InitCred

\* createAmplifyApp with the provider failing the call numbered failAt
\* (0: none of them).
CallCreateAmplifyApp ==
    /\ unitCall.op = "none"
    /\ \E failAt \in 0..3, error \in AllProviderErrors :
          LET app == IF failAt = 1 THEN error ELSE NoError
              branch == IF failAt = 2 THEN error ELSE NoError
              job == IF failAt = 3 THEN error ELSE NoError
          IN  \E p \in {createAmplifyApp(TRUE, AppId(1), ensureGitHubRepo(GitHubRemote).value.repository,
                                           app, branch, job)} :
                 unitCall' = [op |-> "createAmplifyApp", failAt |-> failAt,
                              error |-> IF failAt = 0 THEN NoError ELSE error,
                              result |-> p.result, created |-> p.created]
    /\ UNCHANGED <<PipelineVars, cred, envCall, remoteApp, statusLog, added, writers>>

NextProvision ==
    \/ CallCreateAmplifyApp

SpecProvision == InitProvision /\ [][NextProvision]_vars

----------------------------------------------------------------------------
\* ConfigManager.addDeployment called by concurrent invocations: each call
\* awaits the read of the config file, changes the object it read, and awaits
\* the write of the file.

MaxWriters == 2
MaxCallsPerWriter == 2
Writers == 1..MaxWriters

\* The deployments already in the config file: none, one, or as many as the
\* cap keeps less one, or the cap.
StoredCounts == {0, 1, HistoryCap - 1, HistoryCap}
StoredDeployment(i) == Deployment("old" \o ToString(i), "DEPLOYED", NoUrl)

Writer(at, config, calls) == [at |-> at, config |-> config, calls |-> calls]

InitWriters ==
    /\ pc = "idle"
    /\ fn = "deploy"
    /\ options = [branch |-> "main"]
    /\ repoInfo = NoRepoInfo
    /\ githubToken = NoToken
    /\ appInfo = Undefined
    /\ attempts = 0
    /\ stage = Undefined
    /\ waitResult = NoWait
    /\ result = Pending
    /\ trace = <<>>
    /\ \E k \in StoredCounts :
          /\ added = [i \in 1..k |-> StoredDeployment(i)]
          /\ history = [i \in 1..k |-> StoredDeployment(k - i + 1)]
    /\ storedToken = NoToken
    /\ envToken = NoToken
    /\ amplifyClient = FALSE
    /\ remoteApps = {}
    /\ invocations = 0
    /\ terminalSeen = FALSE
    /\ cred = NoCall
    /\ tool = NoTool
    /\ response = NoResponse
    /\ envCall = NoCall
    /\ remoteApp = NoRemoteApp
    /\ statusLog = <<>>
    /\ unitCall = NoCall
    /\ writers = [w \in Writers |-> Writer("idle", <<>>, 0)]

WritersFrame ==
    <<pc, fn, options, repoInfo, githubToken, appInfo, attempts, stage, waitResult, result,
      trace, storedToken, envToken, amplifyClient, remoteApps, invocations, terminalSeen,
      tool, response, cred, envCall, remoteApp, statusLog, unitCall>>

\* await this.getConfig(), then the unshift and the slice on the object read.
AddDeploymentRead(w) ==
    /\ writers[w].at = "idle"
    /\ writers[w].calls < MaxCallsPerWriter
    /\ LET deployment == Deployment(AppId(w),
                                    IF writers[w].calls = 0 THEN "CREATED" ELSE "DEPLOYED",
                                    NoUrl)
       IN  /\ writers' = [writers EXCEPT ![w] =
                              Writer("saveConfig", addDeployment(history, deployment), @.calls)]
           /\ added' = Append(added, deployment)
    /\ UNCHANGED <<WritersFrame, history>>

\* await this.saveConfig(config): the file becomes the object this call holds.
AddDeploymentSave(w) ==
    /\ writers[w].at = "saveConfig"
    /\ history' = writers[w].config
    /\ writers' = [writers EXCEPT ![w] = Writer("idle", <<>>, @.calls + 1)]
    /\ UNCHANGED <<WritersFrame, added>>

NextWriters ==
    \/ \E w \in Writers : AddDeploymentRead(w)
    \/ \E w \in Writers : AddDeploymentSave(w)

SpecWriters == InitWriters /\ [][NextWriters]_vars

----------------------------------------------------------------------------
\* The import from the provider: sync_deployments_from_aws called again and
\* again while apps appear at the provider.

MaxApps == 11
MaxSyncs == 3

\* listAppsResponse.apps
ListApps(apps) == [i \in 1..Cardinality(apps) |-> AppId(i)]

\* The stage the GetBranchCommand of each app answers with; Undefined where
\* the read throws (the branch might not exist).
BranchStages(n) ==
    {[i \in 1..n |-> s] : s \in {"PRODUCTION", "RUNNING", Undefined}}
        \cup {[i \in 1..n |-> IF i = 1 THEN "PRODUCTION" ELSE "RUNNING"]}

ImportedDeployment(appId, branchStage) ==
    [appId |-> appId,
     status |-> IF branchStage = "PRODUCTION" THEN "DEPLOYED" ELSE "UNKNOWN",
     url |-> IF branchStage = "PRODUCTION" THEN Url("main", DefaultDomain(appId)) ELSE NoUrl,
     importedFromAWS |-> TRUE]

\* d.importedFromAWS
importedFromAWS(d) == "importedFromAWS" \in DOMAIN d /\ d.importedFromAWS

\* The for loop of syncDeploymentHistoryFromAWS from the i-th app on:
\* getAppErrorAt is the app whose GetAppCommand throws, 0 when none does.
RECURSIVE importApps(_, _, _, _, _, _, _)
importApps(deployments, apps, i, existingAppIds, stages, getAppErrorAt, count) ==
    IF i > Len(apps) THEN [ok |-> TRUE, deployments |-> deployments, added |-> count]
    ELSE IF apps[i] \in existingAppIds
        THEN importApps(deployments, apps, i + 1, existingAppIds, stages, getAppErrorAt, count)
    ELSE IF i = getAppErrorAt
        THEN [ok |-> FALSE, deployments |-> deployments, added |-> count]
    ELSE importApps(addDeployment(deployments, ImportedDeployment(apps[i], stages[i])),
                    apps, i + 1, existingAppIds, stages, getAppErrorAt, count + 1)

\* syncDeploymentHistoryFromAWS: what it leaves in the history, and whether
\* it returned the history or threw.
syncDeploymentHistoryFromAWS(client, deployments, apps, listOk, stages, getAppErrorAt) ==
    IF ~client \/ ~listOk THEN [ok |-> FALSE, deployments |-> deployments, added |-> 0]
    ELSE importApps(deployments, apps, 1,
                    {deployments[j].appId : j \in 1..Len(deployments)},
                    stages, getAppErrorAt, 0)

\* handleSyncDeploymentsFromAWS: the answer it builds from what
\* syncDeploymentHistoryFromAWS returned.
handleSyncDeploymentsFromAWS(sync) ==
    LET importedCount == Len(SelectSeq(sync.deployments, importedFromAWS))
    IN  IF ~sync.ok THEN [kind |-> "error", importedCount |-> 0]
        ELSE IF importedCount = 0 THEN [kind |-> "nothing new", importedCount |-> 0]
        ELSE [kind |-> "imported", importedCount |-> importedCount]

InitSync ==
    /\ pc = "idle"
    /\ fn = "deploy"
    /\ options = [branch |-> "main"]
    /\ repoInfo = NoRepoInfo
    /\ githubToken = NoToken
    /\ appInfo = Undefined
    /\ attempts = 0
    /\ stage = Undefined
    /\ waitResult = NoWait
    /\ result = Pending
    /\ trace = <<>>
    /\ \E k \in {0, 1, HistoryCap} : history = [i \in 1..k |-> StoredDeployment(i)]
    /\ storedToken = NoToken
    /\ envToken = NoToken
    /\ amplifyClient = FALSE
    /\ remoteApps = {}
    /\ invocations = 0
    /\ terminalSeen = FALSE
    /\ cred = NoCall
    /\ tool = NoTool
    /\ response = NoResponse
    /\ envCall = NoCall
    /\ remoteApp = NoRemoteApp
    /\ statusLog = <<>>
    /\ added = <<>>
    /\ unitCall = NoCall
    /\ writers = NoWriters

SyncFrame == <<pc, fn, options, repoInfo, githubToken, appInfo, attempts, stage, waitResult,
               result, trace, storedToken, envToken,
               terminalSeen, cred, tool, response, envCall, remoteApp, statusLog, added,
               writers>>

\* An app is created at the provider by other means.
ProviderAppCreated ==
    /\ Cardinality(remoteApps) < MaxApps
    /\ remoteApps' = remoteApps \cup {AppId(Cardinality(remoteApps) + 1)}
    /\ UNCHANGED <<history, unitCall, amplifyClient, invocations, SyncFrame>>

CallSyncDeploymentsFromAWS ==
    /\ invocations < MaxSyncs
    /\ invocations' = invocations + 1
    /\ \E initOk \in BOOLEAN : amplifyClient' = (amplifyClient \/ initOk)
    /\ \E listOk \in BOOLEAN, stages \in BranchStages(Cardinality(remoteApps)),
          getAppErrorAt \in 0..Min(Cardinality(remoteApps), 2) :
          \E sync \in {syncDeploymentHistoryFromAWS(amplifyClient', history, ListApps(remoteApps),
                                                    listOk, stages, getAppErrorAt)} :
             /\ history' = sync.deployments
             /\ unitCall' = [op |-> "syncDeploymentsFromAWS", apps |-> remoteApps,
                             before |-> history, ok |-> sync.ok, added |-> sync.added,
                             response |-> handleSyncDeploymentsFromAWS(sync)]
    /\ UNCHANGED <<remoteApps, SyncFrame>>

NextSync ==
    \/ ProviderAppCreated
    \/ CallSyncDeploymentsFromAWS

SpecSync == InitSync /\ [][NextSync]_vars

----------------------------------------------------------------------------
\* waitForDeployment on its own: the poll of an app that was provisioned,
\* over every sequence of stages the provider can answer with. Each pass of
\* the loop runs once the read it awaits has returned and its timer has fired.

InitPoll ==
    /\ pc = "waitForDeployment"
    /\ fn \in {"deploy", "deployForMCP"}
    /\ \E b \in Branches : options = [branch |-> b]
    /\ repoInfo = ensureGitHubRepo(GitHubRemote).value
    /\ githubToken = NoToken
    /\ appInfo = AppId(1)
    /\ attempts = 0
    /\ stage = Undefined
    /\ waitResult = NoWait
    /\ result = Pending
    /\ trace = <<>>
    /\ history = <<>>
    /\ storedToken = NoToken
    /\ envToken = NoToken
    /\ amplifyClient = TRUE
    /\ remoteApps = {AppId(1)}
    /\ invocations = 1
    /\ terminalSeen = FALSE
    /\ cred = NoCall
    /\ tool = NoTool
    /\ response = NoResponse
    /\ envCall = NoCall
    /\ remoteApp = NoRemoteApp
    /\ statusLog = <<>>
    /\ added = <<>>
    /\ unitCall = NoCall
    /\ writers = NoWriters

NextPoll ==
    \/ WaitForDeployment

\* What every pass of the loop does to the position of the invocation: it
\* counts an attempt, or leaves the loop.
PollVars == <<pc, attempts>>
PollPass ==
    /\ pc = "waitForDeployment"
    /\ \/ pc' = pc /\ attempts' = attempts + 1
       \/ pc' = NextStep(fn, "waitForDeployment") /\ attempts' = attempts

SpecPoll == InitPoll /\ [][NextPoll]_vars /\ WF_PollVars(PollPass)

----------------------------------------------------------------------------
\* Properties of the pipeline (specification Spec)

Has(x) == \E i \in 1..Len(trace) : trace[i] = x
Count(x) == Cardinality({i \in 1..Len(trace) : trace[i] = x})

\* Every occurrence of b in the trace has an a before it.
Before(a, b) ==
    \A j \in 1..Len(trace) : trace[j] = b => \E i \in 1..(j - 1) : trace[i] = a

\* waitForDeployment has returned or thrown.
WaitSettled == waitResult.ok \/ waitResult.err # <<>>

\* It threw what a read of the provider threw.
ReadFailed == ~waitResult.ok /\ \E e \in ReadErrors : waitResult.err = e.message

IsPartialSuccess(msg) == Includes(msg, "PARTIAL_SUCCESS:")
IsTimeout(msg) == Includes(msg, "TIMEOUT:")

TentativeUrl == Url(options.branch, DefaultDomain(appInfo))

\* C1: within one invocation the steps run in the order project validation,
\* repository resolution, token validation, repository-bound validation,
\* provisioning, polling: createApp is issued only after every earlier step
\* succeeded, and no getBranch is issued before provisioning completed.
C1_StepsInOrder ==
    /\ Before(StepDone("validateProject"), StepDone("ensureAmplifyConfig"))
    /\ Before(StepDone("ensureAmplifyConfig"), StepDone("ensureGitHubRepo"))
    /\ Before(StepDone("ensureGitHubRepo"), "GET /user")
    /\ Before(StepDone("ensureGitHubRepo"), StepDone("ensureGitHubAuth"))
    /\ Before(StepDone("ensureGitHubAuth"), "GET /repos/:owner/:repo")
    /\ Before(StepDone("ensureGitHubAuth"), StepDone("validateGitHubTokenForRepository"))
    /\ Before(StepDone("validateGitHubTokenForRepository"), "createApp")
    /\ Before("createApp", "createBranch")
    /\ Before("createBranch", "startJob")
    /\ Before("startJob", StepDone("createAmplifyApp"))
    /\ Before(StepDone("createAmplifyApp"), "getBranch")
    /\ Before(StepDone("createAmplifyApp"), "getApp")
    /\ (pc \in {"createAmplifyApp", "addDeployment", "waitForDeployment", "settle"}
            => Has(StepDone("validateGitHubTokenForRepository")))
    /\ (pc \in {"waitForDeployment", "settle"} => Has(StepDone("createAmplifyApp")))

\* A deployForMCP invocation that polled to the end.
C1_Witness ==
    /\ fn = "deployForMCP"
    /\ pc = "done"
    /\ result.kind = "returned"
    /\ Has("createApp")
    /\ Count("getBranch") > 1

\* C2: PartialSuccess is never produced before partialSuccessThreshold
\* attempts were made; a URL is returned only for a read of PRODUCTION and
\* BuildFailed is thrown only for a read of FAILED.
C2_OutcomesOnlyAtTheirStage ==
    /\ attempts <= partialSuccessThreshold
    /\ (pc = "waitForDeployment" => ~WaitSettled)
    /\ WaitSettled =>
        /\ IsPartialSuccess(waitResult.err) =>
              /\ attempts >= partialSuccessThreshold
              /\ Count("getBranch") > partialSuccessThreshold
        /\ waitResult.ok => stage = "PRODUCTION"
        /\ waitResult.err = MsgBuildFailed => stage = "FAILED"

\* A poll that read SUCCEED on the threshold pass and so ended in PartialSuccess.
C2_Witness ==
    /\ WaitSettled
    /\ IsPartialSuccess(waitResult.err)
    /\ stage = "SUCCEED"
    /\ attempts = partialSuccessThreshold

\* C3: a poll that reads no PRODUCTION and no FAILED (its reads returning)
\* throws PartialSuccess with the app id, the tentative URL and the current
\* stage on the pass in which attempts is 36: after partialSuccessThreshold
\* sleeps, on read 37, with no read after it.
C3_PartialSuccessAtThreshold ==
    (WaitSettled /\ ~terminalSeen /\ ~ReadFailed) =>
        /\ ~waitResult.ok
        /\ waitResult.err = MsgPartialSuccess(appInfo, TentativeUrl, stage)
        /\ attempts = partialSuccessThreshold
        /\ Count("getBranch") = partialSuccessThreshold + 1
        /\ Count("getApp") = 1

\* A deployForMCP invocation that ended with PartialSuccess.
C3_Witness ==
    /\ pc = "done"
    /\ fn = "deployForMCP"
    /\ WaitSettled
    /\ ~terminalSeen
    /\ IsPartialSuccess(waitResult.err)

C5_TerminalStageSettles ==
    /\ (pc = "waitForDeployment" => ~terminalSeen)
    /\ (WaitSettled /\ ~ReadFailed /\ stage = "PRODUCTION") =>
        /\ waitResult.ok
        /\ waitResult.value = <<"https://", TemplateStr(options.branch), ".", appInfo, ".amplifyapp.com">>
        /\ attempts <= partialSuccessThreshold
        /\ Count("getBranch") = attempts + 1
        /\ Count("getApp") = 1
    /\ (WaitSettled /\ stage = "FAILED") =>
        /\ ~waitResult.ok
        /\ waitResult.err = MsgBuildFailed
        /\ Count("getBranch") = attempts + 1
        /\ Count("getApp") = 0

\* PRODUCTION read on the threshold pass: the URL, not PartialSuccess.
C5_Witness ==
    /\ WaitSettled
    /\ waitResult.ok
    /\ stage = "PRODUCTION"
    /\ attempts = partialSuccessThreshold

\* C6: a deployForMCP invocation whose poll ended in PartialSuccess or
\* Timeout returns a result carrying the app id and a tentative URL; it does
\* not throw.
C6_PartialSuccessIsReturned ==
    (fn = "deployForMCP" /\ pc = "done" /\ WaitSettled /\ IsPartialOrTimeout(waitResult.err)) =>
        /\ result.kind = "returned"
        /\ result.value.appId = appInfo
        /\ result.value.url = TentativeUrl

\* The URL the background entry point builds: options.branch || 'main'.
ExpectedUrl == Url(IF options.branch = Undefined THEN "main" ELSE options.branch,
                   DefaultDomain(appInfo))

----------------------------------------------------------------------------
\* Properties of the credential validator (specification SpecCred)

AuthCalled == cred.op = "ensureGitHubAuth"
RepositoryCheckCalled == cred.op = "validateGitHubTokenForRepository"

HasScope(granted, scope) == \E i \in 1..Len(granted) : granted[i] = scope

\* C8: the format check comes first and the checks short-circuit: a token with
\* the fine-grained prefix, or with an unrecognised one, fails with the
\* incompatible-token-kind error and no call is made.
C8_FormatCheckBeforeAnyCall ==
    AuthCalled =>
        /\ (cred.token # NoToken /\ StartsWith(cred.token, FineGrainedPrefix)) =>
              /\ ~cred.result.ok
              /\ cred.result.err = MsgFineGrained
              /\ cred.result.calls = <<>>
        /\ (cred.token # NoToken /\ ~StartsWith(cred.token, FineGrainedPrefix)
                /\ ~StartsWith(cred.token, ClassicPrefix)) =>
              /\ ~cred.result.ok
              /\ cred.result.err = MsgUnknownFormat
              /\ cred.result.calls = <<>>
        /\ cred.result.calls \in {<<>>, <<"GET /user">>, <<"GET /user", "GET /user/repos">>}
        /\ (cred.result.calls = <<"GET /user", "GET /user/repos">>) => cred.userStatus = "200"
        /\ cred.result.ok => (cred.userStatus = "200" /\ cred.reposStatus = "200")

\* A fine-grained token taken from GITHUB_TOKEN and rejected.
C8_Witness ==
    /\ AuthCalled
    /\ cred.token = FineGrainedToken
    /\ cred.store = FineGrainedToken
    /\ ~cred.result.ok

\* C9: a token that passed the format, identity and capability checks and
\* whose granted scopes do not include admin:repo_hook fails with
\* MissingRequiredScope carrying the granted scopes.
C9_MissingScopeFails ==
    (AuthCalled /\ StartsWith(cred.token, ClassicPrefix)
        /\ cred.userStatus = "200" /\ cred.reposStatus = "200"
        /\ cred.present /\ ~HasScope(cred.granted, ScopeAdminRepoHook)) =>
        /\ ~cred.result.ok
        /\ cred.result.err = MsgMissingRequiredScope(JoinScopes(cred.granted))

\* C10: the repository is read before the webhooks are probed; a 404 on the
\* repository fails with RepositoryNotAccessible and no probe; a 403 on the
\* probe fails with WebhookPermissionDenied; both are thrown as they are, and
\* differ from each other and from the token validator's failures.
C10_RepositoryBoundFailures ==
    (RepositoryCheckCalled /\ cred.repoInfo # NoRepoInfo) =>
        LET repository == cred.repoInfo.repository
            notAccessible == MsgRepositoryNotAccessible(repository)
            denied == MsgWebhookPermissionDenied(repository)
        IN  /\ cred.result.calls \in {<<"GET /repos/:owner/:repo">>,
                                      <<"GET /repos/:owner/:repo", "GET /repos/:owner/:repo/hooks">>}
            /\ cred.repoStatus = "404" =>
                  /\ ~cred.result.ok
                  /\ cred.result.err = notAccessible
                  /\ cred.result.calls = <<"GET /repos/:owner/:repo">>
            /\ (cred.repoStatus = "200" /\ cred.hooksStatus = "403") =>
                  /\ ~cred.result.ok
                  /\ cred.result.err = denied
            /\ notAccessible # denied
            /\ \A status \in UserStatuses :
                  MsgInvalidOrExpired(status) \notin {notAccessible, denied}
            /\ \A granted \in ScopeLists :
                  MsgMissingRequiredScope(JoinScopes(granted)) \notin {notAccessible, denied}
            /\ \A inner \in {notAccessible, denied} :
                  MsgFailedToValidateRepository(inner) \notin {notAccessible, denied}

\* The webhook probe answered 403.
C10_Witness ==
    /\ RepositoryCheckCalled
    /\ cred.repoInfo # NoRepoInfo
    /\ cred.repoStatus = "200"
    /\ cred.hooksStatus = "403"
    /\ ~cred.result.ok

----------------------------------------------------------------------------
\* AppProvisioner

ProvisioningCalls == {"createApp", "createBranch", "startJob"}

\* The external calls of the trace, the step markers left out.
CallsOf(t) == SelectSeq(t, LAMBDA x : ~StartsWith(x, "ok:"))

\* C11: provisioning issues createApp, createBranch and startJob in that
\* order, each at most once and only after the one before; when
\* createAmplifyApp fails after createApp succeeded (createBranch was issued)
\* the invocation fails, the last call made is createBranch or startJob (no
\* delete, no compensating call) and the app created exists at the provider;
\* when it fails before, no app was added.
C11_ProvisioningNotTransactional ==
    /\ [](/\ Before("createApp", "createBranch")
          /\ Before("createBranch", "startJob")
          /\ \A c \in ProvisioningCalls : Count(c) <= 1)
    /\ [][(pc = "createAmplifyApp" /\ pc' = "done") =>
            /\ result'.kind = "thrown"
            /\ IF Has("createBranch")'
                 THEN /\ remoteApps' = remoteApps \cup {AppId(Cardinality(remoteApps) + 1)}
                      /\ Cardinality(remoteApps') = Cardinality(remoteApps) + 1
                      /\ CallsOf(trace')[Len(CallsOf(trace'))] \in {"createBranch", "startJob"}
                 ELSE remoteApps' = remoteApps]_vars

\* createAmplifyApp failed at startJob and the app it created exists remotely.
C11_Witness ==
    /\ pc = "done"
    /\ result.kind = "thrown"
    /\ Has("startJob")
    /\ ~Has(StepDone("createAmplifyApp"))
    /\ remoteApps # {}

----------------------------------------------------------------------------
\* Properties of the environment manager (specification SpecEnv)

RuleMatches(x) == \E i \in 1..Len(excludePatterns) : RegexTest(excludePatterns[i], x)
Holds(obj, e) == \E i \in 1..Len(obj) : obj[i] = e
Filtered == envCall.op = "filterProductionVars"

\* C12: filterProductionVars keeps a pair exactly when no exclusion rule
\* matches its key, none matches its value and the value is not empty after
\* trimming, and returns no pair it was not given; so a pair whose key is Port
\* or DEVICE is dropped whatever its value, a pair whose value is empty or
\* blank is dropped whatever its key, and SHOST=abc is kept.
C12_FilterKeepsExactlySafePairs ==
    Filtered =>
        /\ \A i \in 1..Len(envCall.input) :
              LET e == envCall.input[i]
              IN  Holds(envCall.output, e) <=>
                    (~RuleMatches(e.key) /\ ~RuleMatches(e.value) /\ Trim(e.value) # <<>>)
        /\ \A i \in 1..Len(envCall.output) :
              LET e == envCall.output[i]
              IN  /\ Holds(envCall.input, e)
                  /\ e.key \notin {<<"P", "o", "r", "t">>, <<"D", "E", "V", "I", "C", "E">>}
                  /\ e.value \notin {<<>>, <<" ", "\t">>}
        /\ \A i \in 1..Len(envCall.input) :
              envCall.input[i] = Entry(<<"S", "H", "O", "S", "T">>, <<"a", "b", "c">>)
                  => Holds(envCall.output, envCall.input[i])

\* Of two pairs with harmless keys one was dropped for its value and another
\* given with an excluded key and a harmless value was dropped too.
C12_Witness ==
    /\ Filtered
    /\ Len(envCall.input) = 2
    /\ envCall.output = <<>>
    /\ \E i \in 1..2 : RuleMatches(envCall.input[i].key) /\ envCall.input[i].value = <<"a", "b", "c">>
    /\ \E i \in 1..2 : ~RuleMatches(envCall.input[i].key) /\ Trim(envCall.input[i].value) = <<>>
                        /\ envCall.input[i].value # <<>>

\* C13: filtering what filterProductionVars returned gives it back: the same
\* keys with the same values in the same order.
C13_FilterIdempotent ==
    Filtered => filterProductionVars(envCall.output) = envCall.output

\* Two pairs were kept, so the second filtering has an order to keep.
C13_Witness ==
    /\ Filtered
    /\ Len(envCall.output) = 2
    /\ ~IsArrayIndex(envCall.output[1].key)
    /\ ~IsArrayIndex(envCall.output[2].key)

Synced == envCall.op = "handleSyncEnvVars"

\* C14: every mapping the env-sync workflow passes to the provider's
\* app-environment update is what filterProductionVars makes of it: no pair of
\* it has a key or a value an exclusion rule matches or a blank value, and the
\* mapping is what the filter gives for the merged contents of the env files.
C14_PushedMappingIsFiltered ==
    Synced =>
        \A n \in 1..Len(envCall.results.sent) :
            LET pushed == envCall.results.sent[n].environmentVariables
            IN  /\ filterProductionVars(pushed) = pushed
                /\ pushed # EmptyObject
                /\ \A i \in 1..Len(pushed) :
                      /\ ~RuleMatches(pushed[i].key)
                      /\ ~RuleMatches(pushed[i].value)
                      /\ Trim(pushed[i].value) # <<>>

\* Two env files were merged, one of them with variables the filter drops,
\* and the mapping left was pushed.
C14_Witness ==
    /\ Synced
    /\ envCall.results.synced
    /\ Len(envCall.results.sent) = 1
    /\ Cardinality({i \in 1..Len(envFiles) : envCall.project.files[i].readable}) >= 2
    /\ \E i \in 1..Len(envFiles) :
          \E l \in 1..Len(envCall.project.files[i].lines) :
              envCall.project.files[i].lines[l] = <<"P", "O", "R", "T", "=", "3", "0", "0", "0">>

\* C15: a sync from a project root that has no env file, while a child
\* directory that is searched has one, reads the env files of that child
\* instead of reporting that none was found.
C15_SyncFallsBackToChildDirectory ==
    (/\ Synced
     /\ envCall.result.ok
     /\ ~hasEnvIn(envCall.project.files)
     /\ findProjectWithEnvFiles(envCall.project) # ProjectPath)
        => /\ envCall.results.envFileRead
           /\ ~Includes(envCall.results.errors, MsgNoEnvFiles)

----------------------------------------------------------------------------
\* Properties of the status check (specification SpecStatus)

ProviderReads == {"getApp", "listBranches", "getBranch"}
StatusReturned(c) == statusLog[c].pc \in {"respond", "done"} /\ statusLog[c].err = <<>>

\* C16: the status check reads only: the calls it makes to the provider are
\* getApp, listBranches and getBranch, no step of it changes the deployment
\* history, the remote app or the stored token, and all the calls that return
\* against the same remote state, however their reads interleave, return the
\* same status, branch and URL, which the handler answers with.
C16_StatusCheckIsPureRead ==
    /\ [](\A c \in Callers :
            /\ \A i \in 1..Len(statusLog[c].calls) : statusLog[c].calls[i] \in ProviderReads
            /\ \A d \in Callers :
                  StatusReturned(c) /\ StatusReturned(d) => statusLog[c].out = statusLog[d].out
            /\ (statusLog[c].pc = "done" /\ StatusReturned(c)) =>
                  /\ statusLog[c].answer.status = statusLog[c].out.status
                  /\ statusLog[c].answer.branch = statusLog[c].out.branch
                  /\ statusLog[c].answer.url = statusLog[c].out.url)
    /\ [][/\ history' = history
          /\ remoteApp' = remoteApp
          /\ remoteApps' = remoteApps
          /\ storedToken' = storedToken]_vars

\* Two callers whose reads interleaved both got the status of the branch in
\* production, with its URL.
C16_Witness ==
    /\ \A c \in Callers : statusLog[c].pc = "done" /\ StatusReturned(c)
    /\ statusLog[1].out.status = "PRODUCTION"
    /\ statusLog[1].out.branch = "dev"
    /\ statusLog[1].out.url # NoUrl
    /\ history # <<>>

----------------------------------------------------------------------------
\* Properties of the deploy_to_amplify handler (specification Spec)

ViaTool == tool.name = "deploy_to_amplify"
NoDecision == ViaTool /\ tool.hasEnvFiles /\ tool.sync_env_vars = Undefined

\* C17: when env files are detected and no sync_env_vars decision was given,
\* deploy_to_amplify answers with the consent preview and nothing else
\* happens: no step of the pipeline runs, no call reaches the provider, and
\* the step that answers leaves the deployment history and the remote apps
\* as they were; so a call of the tool that gets into the pipeline was given
\* true or false, or no env files were detected.
C17_ConsentBeforeDeployment ==
    /\ [](/\ NoDecision =>
                /\ response.kind = "consent"
                /\ pc = "done"
                /\ trace = <<>>
                /\ result = Pending
          /\ (ViaTool /\ (pc # "done" \/ trace # <<>> \/ result # Pending)) =>
                \/ tool.sync_env_vars \in {"true", "false"}
                \/ ~tool.hasEnvFiles)
    /\ [][NoDecision' => (history' = history /\ remoteApps' = remoteApps)]_vars

\* Env files detected, no decision: the handler answered with the preview
\* while an app of an earlier deployment exists.
C17_Witness ==
    /\ NoDecision
    /\ response.kind = "consent"
    /\ history # <<>>
    /\ remoteApps # {}

\* C18: a deploy_to_amplify call with sync_env_vars=true on a project with
\* env files that started the deployment has pushed the filtered variables to
\* the app: an app-environment update is among the calls of the invocation.
C18_DeploySyncsEnvVars ==
    (/\ ViaTool
     /\ tool.hasEnvFiles
     /\ tool.sync_env_vars = "true"
     /\ response.kind = "started")
        => Has("updateApp")

----------------------------------------------------------------------------
\* Properties of deployment tracking (specification Spec)

\* C19: a wait whose last stage read gave SUCCEED ended with success, as one
\* whose last read gave PRODUCTION does.
C19_SucceedIsTerminalSuccess ==
    (WaitSettled /\ stage \in {"PRODUCTION", "SUCCEED"} /\ ~ReadFailed) => waitResult.ok

----------------------------------------------------------------------------
\* Properties of the deployment history (specification SpecHistory)

----------------------------------------------------------------------------
\* Properties of the token sources (specification SpecToken)

\* The token ensureGitHubAuth resolves from a secret store and a GITHUB_TOKEN
\* value: the stored one, and the environment's when nothing is stored.
Resolves(stored, env) == IF stored # NoToken THEN stored ELSE env

\* C21: the token an invocation uses is the one the secret store and
\* GITHUB_TOKEN give as they stand at that invocation, and an invocation
\* leaves unchanged the token a later invocation resolves, whatever
\* GITHUB_TOKEN is by then.
C21_TokenResolvedFreshNoCaching ==
    [][RunEnsureGitHubAuth =>
          /\ cred'.token = Resolves(storedToken, envToken)
          /\ \A later \in EnvTokens :
                Resolves(storedToken', later) = Resolves(storedToken, later)]_vars

----------------------------------------------------------------------------
\* Properties of the project validator (specification SpecProject)

ProjectValidated == unitCall.op = "validateProject"

HasText(field, word) == field.present /\ IncludesSeq(field.value, word)

\* The manifest indicates a command-line tool or a backend server.
IndicatesCliOrServer(p) ==
    /\ p.manifest = "ok"
    /\ \/ p.bin
       \/ \E d \in p.deps : d \in {"commander", "inquirer", "@modelcontextprotocol/sdk"}
       \/ HasText(p.name, <<"c", "l", "i">>)
       \/ p.description.present /\ IncludesSeq(ToLower(p.description.value), <<"c", "l", "i">>)
       \/ \E d \in p.deps : d \in {"express", "fastify", "koa", "hapi"}

ListsWebFramework(p) == \E d \in p.deps : d \in {"next", "react", "vue", "@angular/core"}

UnsupportedProjectKind(r) == ~r.ok /\ r.err \in {MsgCliTool, MsgServer}

\* C22 as stated: every manifest that indicates a command-line tool or a
\* backend server fails validation with UnsupportedProjectKind, whatever
\* other dependencies it lists.
C22_CliOrServerAlwaysRejected ==
    (ProjectValidated /\ IndicatesCliOrServer(unitCall.project))
        => UnsupportedProjectKind(unitCall.result)

\* C22 amended: a manifest that lists no web framework (next, react, vue,
\* @angular/core) and indicates a command-line tool or a backend server fails
\* validation with UnsupportedProjectKind, whatever the HTML files and the
\* version-control state of the directory; a manifest that lists a web
\* framework is never rejected as UnsupportedProjectKind, and no other
\* project is.
C22_CliOrServerRejectedUnlessWebFramework ==
    ProjectValidated =>
        (UnsupportedProjectKind(unitCall.result)
            <=> (IndicatesCliOrServer(unitCall.project) /\ ~ListsWebFramework(unitCall.project)))

\* A command-line tool with no HTML file and no git work tree is rejected as
\* a command-line tool.
C22_Witness ==
    /\ ProjectValidated
    /\ unitCall.project.manifest = "ok"
    /\ unitCall.project.deps = {"inquirer", "koa"}
    /\ unitCall.project.html = "none"
    /\ ~unitCall.project.git
    /\ ~unitCall.project.readable
    /\ unitCall.result.err = MsgCliTool

----------------------------------------------------------------------------
\* Properties of the provisioner (specification SpecProvision)

ProvisioningFailed == unitCall.op = "createAmplifyApp" /\ unitCall.failAt # 0

\* The failure kinds, as their messages tell them apart.
IsAppQuotaExceeded(msg) == msg = <<"AWS Amplify app limit reached. Please delete unused apps.">>
IsAuthRejectedByProvider(msg) ==
    /\ Len(msg) >= 3
    /\ SubSeq(msg, 1, 3) = <<"GitHub ", "authentication", " failed during AWS Amplify setup.">>
IsRepositoryRejected(msg) ==
    /\ Len(msg) >= 2
    /\ SubSeq(msg, 1, 2) = <<"Repository", " setup failed during AWS Amplify setup:">>
IsProviderError(msg) == Len(msg) >= 1 /\ msg[1] = "AWS Amplify deployment failed: "

KindsOf(msg) ==
    {k \in {"AppQuotaExceeded", "AuthRejectedByProvider", "RepositoryRejected", "ProviderError"} :
        \/ k = "AppQuotaExceeded" /\ IsAppQuotaExceeded(msg)
        \/ k = "AuthRejectedByProvider" /\ IsAuthRejectedByProvider(msg)
        \/ k = "RepositoryRejected" /\ IsRepositoryRejected(msg)
        \/ k = "ProviderError" /\ IsProviderError(msg)}

\* msg carries `label` followed by `value`.
Carries(msg, label, value) ==
    \E i \in 1..(Len(msg) - 1) : msg[i] = label /\ msg[i + 1] = value

\* Every message a failed token validation gives.
TokenValidationMessages ==
    {MsgSetupRequired} \cup
    {validateGitHubToken(t, u, r, h).err :
        t \in Tokens, u \in UserStatuses, r \in ReposStatuses, h \in ScopeHeaders}

\* C23: an error the provider raises from any of the three calls is reported
\* as exactly one failure kind: AppQuotaExceeded when its name is
\* LimitExceededException; otherwise AuthRejectedByProvider when its message
\* contains 'Bad credentials' or 'authentication'; otherwise
\* RepositoryRejected when its message contains 'repository'; otherwise
\* ProviderError with the error's name, code and request id. An
\* AuthRejectedByProvider failure is neither a token-validation failure nor a
\* ProviderError.
C23_ProviderErrorsMappedByPrecedence ==
    ProvisioningFailed =>
        LET e == unitCall.error
            msg == unitCall.result.err
            limit == e.name = "LimitExceededException"
            auth == Includes(e.message, "Bad credentials") \/ Includes(e.message, "authentication")
            repo == Includes(e.message, "repository")
        IN  /\ ~unitCall.result.ok
            /\ Cardinality(KindsOf(msg)) = 1
            /\ limit => KindsOf(msg) = {"AppQuotaExceeded"}
            /\ (~limit /\ auth) =>
                  /\ KindsOf(msg) = {"AuthRejectedByProvider"}
                  /\ msg \notin TokenValidationMessages
            /\ (~limit /\ ~auth /\ repo) => KindsOf(msg) = {"RepositoryRejected"}
            /\ (~limit /\ ~auth /\ ~repo) =>
                  /\ KindsOf(msg) = {"ProviderError"}
                  /\ Carries(msg, "Error Type: ", e.name)
                  /\ Carries(msg, "Error Code: ", IF e.code = Undefined THEN "N/A" ELSE e.code)
                  /\ Carries(msg, "Request ID: ",
                             IF e.requestId = Undefined THEN "N/A" ELSE e.requestId)

\* startJob fails with a message that names the repository and says 'Bad
\* credentials': reported as AuthRejectedByProvider.
C23_Witness ==
    /\ ProvisioningFailed
    /\ unitCall.failAt = 3
    /\ unitCall.error.name = "BadRequestException"
    /\ Includes(unitCall.error.message, "repository")
    /\ Includes(unitCall.error.message, "Bad credentials")
    /\ IsAuthRejectedByProvider(unitCall.result.err)

----------------------------------------------------------------------------
\* Properties of concurrent addDeployment calls (specification SpecWriters)

AllWritten == \A w \in Writers : writers[w].at = "idle"
IsStored(d) == \E i \in StoredCounts : i >= 1 /\ \E j \in 1..i : d = StoredDeployment(j)
InHistory(d) == \E i \in 1..Len(history) : history[i] = d

\* C24: once the addDeployment calls of the concurrent invocations have all
\* completed, the history holds every record they added, and the records
\* stored before are there unaltered, most recent first, but for the oldest
\* ones the cap has dropped.
C24_HistoryAppendAndTruncate ==
    AllWritten =>
        LET before == SelectSeq(added, IsStored)
            kept == SelectSeq(history, IsStored)
            new == Len(added) - Len(before)
        IN  /\ \A i \in 1..Len(added) : ~IsStored(added[i]) => InHistory(added[i])
            /\ Len(history) = Min(Len(added), HistoryCap)
            /\ Len(kept) = Min(Len(before), HistoryCap - new)
            /\ \A i \in 1..Len(kept) : kept[i] = before[Len(before) - i + 1]

----------------------------------------------------------------------------
\* Properties of the history the entry points write (specification Spec)

RecordsOf(appId) == SelectSeq(history, LAMBDA d : d.appId = appId)

\* deployForMCP went through its poll and recorded the outcome.
FullDeploySettled ==
    /\ pc = "done"
    /\ fn = "deployForMCP"
    /\ WaitSettled
    /\ (waitResult.ok \/ IsPartialOrTimeout(waitResult.err))

\* C25: after deployForMCP has settled, the history holds exactly one record
\* with the invocation's app id: DEPLOYED with the live URL when the poll
\* returned, DEPLOYING with the tentative URL when it ended in partial
\* success or timeout.
C25_OneRecordPerFullDeploy ==
    FullDeploySettled =>
        /\ Len(RecordsOf(appInfo)) = 1
        /\ RecordsOf(appInfo)[1] =
              IF waitResult.ok
                  THEN Deployment(appInfo, "DEPLOYED", waitResult.value)
                  ELSE Deployment(appInfo, "DEPLOYING",
                                  Url(options.branch, DefaultDomain(appInfo)))

----------------------------------------------------------------------------
\* Properties of the import from the provider (specification SpecSync)

SyncAnswered == unitCall.op = "syncDeploymentsFromAWS" /\ unitCall.ok

\* The call before this one was an import that returned, from the same
\* list of provider apps.
SyncedBefore == SyncAnswered /\ unitCall.apps = remoteApps

\* C26: the count the handler reports is the number of records the call
\* added, and an import repeated with the provider's apps unchanged adds
\* nothing and answers that no new deployments were found.
C26_SyncIdempotentCountsNew ==
    [][(unitCall'.op = "syncDeploymentsFromAWS" /\ unitCall' # unitCall /\ unitCall'.ok) =>
          /\ unitCall'.response.importedCount = unitCall'.added
          /\ \A i \in 1..Len(history') :
                (\A j \in 1..Len(history) : history[j] # history'[i])
                    => history'[i].appId \notin {history[j].appId : j \in 1..Len(history)}
          /\ SyncedBefore =>
                /\ history' = history
                /\ unitCall'.response.kind = "nothing new"]_vars

----------------------------------------------------------------------------
\* Properties of the poll (specification SpecPoll)

StageReads == Len(SelectSeq(trace, LAMBDA c : c = "getBranch"))
Polling == pc = "waitForDeployment"
PollEnded == pc # "waitForDeployment"

PollSucceeded == waitResult.ok
PollBuildFailed == ~waitResult.ok /\ waitResult.err = MsgBuildFailed
PollPartialSuccess == ~waitResult.ok /\ Includes(waitResult.err, "PARTIAL_SUCCESS:")
PollTimeout == ~waitResult.ok /\ Includes(waitResult.err, "TIMEOUT:")
PollReadThrew == ~waitResult.ok /\ \E e \in ReadErrors : waitResult.err = e.message

\* A read that throws in the pass the poll is about to make ends it there,
\* with the error of the read.
ThrowingReadEndsPoll ==
    \A e \in ReadErrors, stageRead \in Stages, appRead \in ReadOutcomes :
        LET w == waitForDeploymentStep(attempts, appInfo, options.branch, e, stageRead, appRead)
        IN  attempts < maxAttempts =>
                /\ w.settled
                /\ w.result = Throw(e.message, <<"getBranch">>)

PollBounded ==
    /\ StageReads <= partialSuccessThreshold + 1
    /\ Polling => ThrowingReadEndsPoll
    /\ PollEnded =>
          /\ Cardinality({k \in 1..5 :
                <<PollSucceeded, PollBuildFailed, PollPartialSuccess,
                  PollTimeout, PollReadThrew>>[k]}) = 1
          /\ PollReadThrew => trace[Len(trace)] \in {"getBranch", "getApp"}

\* C27: the poll makes at most partialSuccessThreshold + 1 = 37 stage reads
\* and ends, whatever stages the provider answers with: in success, build
\* failure, partial success or timeout when every read returned, and at
\* once with the error of the read when one threw.
C27_PollTerminatesWithinThreshold ==
    /\ []PollBounded
    /\ <>PollEnded

C27_Witness ==
    /\ PollEnded
    /\ StageReads = partialSuccessThreshold + 1
    /\ PollPartialSuccess

----------------------------------------------------------------------------
\* Properties of what provisioning leaves in the history (specification Spec)

InvocationEnded == pc = "done" /\ fn \in EntryPoints
RecordingEntryPoints == {"deployForMCP", "deployForMCPBackground"}

\* createApp succeeded in this invocation: the app it created is the newest
\* at the provider.
AppCreated == Has("createBranch")
NewestApp == AppId(Cardinality(remoteApps))
FullyProvisioned == Has(StepDone("createAmplifyApp"))
HasRecord(appId) == Len(RecordsOf(appId)) >= 1

----------------------------------------------------------------------------
\* Properties of what is written to the secret store (specification SpecToken)

\* C29: a token is written to the secret store only once it has passed
\* validation: whenever ensureGitHubAuth or the setup wizard changes the
\* stored token, the checks of that call succeeded, and they were made on
\* the token now stored.
C29_OnlyValidatedTokenStored ==
    [][storedToken' # storedToken =>
          /\ cred'.op \in {"ensureGitHubAuth", "createPersonalAccessToken"}
          /\ cred'.token = storedToken'
          /\ cred'.result.ok]_vars

----------------------------------------------------------------------------
\* Properties of the repository-bound check (specification SpecCred)

\* C30: validateGitHubTokenForRepository returns exactly when the repository
\* read and the webhook probe both answered with a 2xx status; any other
\* answer to either (403, 401, 404, 5xx, no answer) makes it throw.
C30_RepositoryCheckNeedsConfirmedWebhooks ==
    (RepositoryCheckCalled /\ cred.repoInfo # NoRepoInfo) =>
        (cred.result.ok <=> (HttpOk(cred.repoStatus) /\ HttpOk(cred.hooksStatus)))

====
